---- MODULE Spec2Model ----
(***************************************************************************)
(* A model of the CoSPDX schema compiler (src/gen/gen.py) and of the       *)
(* document transcoder (src/conv/conv.py).                                 *)
(*                                                                         *)
(* Python strings are sequences of code points (integers), so that         *)
(* escaping, prefix tests and splitting are computed character by          *)
(* character as the code computes them.                                    *)
(***************************************************************************)
EXTENDS Integers, Sequences, FiniteSets, TLC

VARIABLES
    interner,   \* gen.py: the module-level objects LABELS and CONSTS
    hist,       \* history: per interner, original string -> what its first get() gave
    ret,        \* history: the last get() call and what it returned
    ngets,      \* history: number of get() calls made
    Schema,     \* conv.py: the class attributes Schema.labels, .enums, .consts
    loaded,     \* history: the last Schema(...) construction and its outcome
    node,       \* gen.py: the schema node given to find_type
    klass,      \* gen.py: what find_type returned for it ("pending" before the call)
    document,   \* gen.py: the schema read by the main program: toplevel and "$defs"
    main,       \* gen.py: the main program: its position, its locals, what it printed
    dropCall,   \* gen.py: a call of drop_weaker_constraints: its argument and its outcome
    cddlCall,   \* gen.py: what find_type(node).cddl(node) gave for the node
    labelsCall, \* gen.py: what LABELS.definitions(grouping) gave
    grouping,   \* gen.py: Grouping(defs).profiles for the table of the document
    walk,       \* gen.py: a call of totalrefs: its locals and its position
    mappedCall  \* conv.py: a call of mapped: its argument before and after, its result

internVars == <<interner, hist, ret, ngets>>
convVars == <<Schema, loaded>>
classVars == <<node, klass>>
emitVars == <<document, main>>
fnVars == <<dropCall, cddlCall, labelsCall, grouping, walk, mappedCall>>

vars ==
    <<interner, hist, ret, ngets, Schema, loaded, node, klass, document, main,
      dropCall, cddlCall, labelsCall, grouping, walk, mappedCall>>

-----------------------------------------------------------------------------
(* Bounds of the model.                                                    *)

\* longest original string handed to get() in SpecInterner
MaxLen == 1
\* number of get() calls in a behaviour of SpecInterner
MaxGets == 3
\* number of distinct labels interned in SpecRanges
MaxLabels == 1001
\* number of distinct constants interned in SpecRanges
MaxConsts == 1
\* number of lines of a grammar text given to Schema(...) in SpecConv
MaxLines == 2
\* number of keys of a schema node given to find_type in SpecClassify
MaxKeys == 4
\* number of definitions of the schema given to the main program in SpecEmit
MaxDefs == 2
\* number of fragments of the list given to drop_weaker_constraints in SpecDrop
MaxParts == 3
\* largest "minimum" of a number or integer node translated in SpecTranslate
MaxMinimum == 2
\* number of properties of an object node translated in SpecTranslate
MaxProps == 2
\* number of field names interned before the label table is rendered in SpecRender
MaxFields == 3
\* number of iterations of the loop of totalrefs that SpecWalk follows
MaxIterations == 5
\* length of the arrays of the documents given to mapped in SpecTranscode
MaxItems == 2
\* number of members of the allOf nodes of SpecShapes
MaxMembers == 2

-----------------------------------------------------------------------------
(* Characters.                                                             *)

Colon == 58
Slash == 47
Underscore == 95
Dot == 46
Space == 32
EqualsSign == 61

\* the characters original strings are drawn from: ':' '/' '_' and 'a'
Alphabet == {Colon, Slash, Underscore, 97}

Strings == UNION {[1..n -> Alphabet] : n \in 0..MaxLen}

\* "label" and "const"
LabelPrefix == <<108, 97, 98, 101, 108>>
ConstPrefix == <<99, 111, 110, 115, 116>>

\* str.replace(old, new) for single characters
Replace(s, old, new) == [i \in 1..Len(s) |-> IF s[i] = old THEN new ELSE s[i]]

\* str.startswith
StartsWith(s, p) == Len(s) >= Len(p) /\ SubSeq(s, 1, Len(p)) = p

\* str.split(sep) and str.join
RECURSIVE SplitFrom(_, _, _)
SplitFrom(s, sep, cur) ==
    IF s = <<>> THEN <<cur>>
    ELSE IF StartsWith(s, sep)
    THEN <<cur>> \o SplitFrom(SubSeq(s, Len(sep) + 1, Len(s)), sep, <<>>)
    ELSE SplitFrom(Tail(s), sep, Append(cur, Head(s)))

Split(s, sep) == SplitFrom(s, sep, <<>>)

RECURSIVE Join(_, _)
Join(parts, sep) ==
    IF parts = <<>> THEN <<>>
    ELSE IF Len(parts) = 1 THEN parts[1]
    ELSE parts[1] \o sep \o Join(Tail(parts), sep)

\* sub in s
Contains(s, sub) == \E i \in 1..(Len(s) - Len(sub) + 1) : SubSeq(s, i, i + Len(sub) - 1) = sub

-----------------------------------------------------------------------------
(* gen.py: class ContiguousInternedEntries                                 *)

EmptyMap == <<>>

ContiguousInternedEntries(prefix, offset) ==
    [prefix |-> prefix,
     starting_offset |-> offset,
     latest_index |-> offset,
     entries |-> EmptyMap,
     unescaped_entries |-> {}]

LabelOffset == 0
ConstOffset == 1000

Objects == {"LABELS", "CONSTS"}

ModuleInterners ==
    [o \in Objects |->
        IF o = "LABELS" THEN ContiguousInternedEntries(LabelPrefix, LabelOffset)
        ELSE ContiguousInternedEntries(ConstPrefix, ConstOffset)]

\* escape_name: the escaped name, whether ValueError is raised, and the object after
escape_name(self, name) ==
    LET escaped == Replace(Replace(name, Colon, Underscore), Slash, Underscore)
    IN  IF escaped \in DOMAIN self.entries /\ escaped \notin self.unescaped_entries
        THEN [raised |-> TRUE, value |-> escaped, self |-> self]
        ELSE [raised |-> FALSE, value |-> escaped,
              self |-> [self EXCEPT !.unescaped_entries = @ \cup {escaped}]]

get_always_new(self, entry) ==
    LET e == escape_name(self, self.prefix \o <<Dot>> \o entry)
    IN  IF e.raised THEN [raised |-> TRUE, value |-> <<>>, self |-> self]
        ELSE [raised |-> FALSE, value |-> e.value,
              self |-> [e.self EXCEPT
                          !.latest_index = @ + 1,
                          !.entries = (e.value :> (e.self.latest_index + 1)) @@ @]]

\* get: the interned name returned, whether an error is raised, and the object after
get(self, entry) ==
    LET e == escape_name(self, self.prefix \o <<Dot>> \o entry)
        interned_name == e.value
    IN  IF e.raised THEN [raised |-> TRUE, value |-> <<>>, self |-> self]
        ELSE IF interned_name \notin DOMAIN e.self.entries
        THEN [raised |-> FALSE, value |-> interned_name,
              self |-> [e.self EXCEPT
                          !.latest_index = @ + 1,
                          !.entries = @ @@ (interned_name :> (e.self.latest_index + 1))]]
        ELSE [raised |-> FALSE, value |-> interned_name, self |-> e.self]

NoCall == [obj |-> "none", entry |-> <<>>, raised |-> FALSE, name |-> <<>>,
           index |-> -1, repeat |-> FALSE, fresh |-> FALSE]

\* one call o.get(entry), with the history variables kept
Get(o, entry) ==
    LET r == get(interner[o], entry)
        index == IF r.raised THEN -1 ELSE r.self.entries[r.value]
        seen == entry \in DOMAIN hist[o]
    IN  /\ interner' = [interner EXCEPT ![o] = r.self]
        /\ ret' = [obj |-> o, entry |-> entry, raised |-> r.raised, name |-> r.value,
                   index |-> index, repeat |-> seen, fresh |-> ~seen]
        /\ hist' = IF r.raised \/ seen THEN hist
                   ELSE [hist EXCEPT ![o] = @ @@ (entry :> [name |-> r.value, index |-> index])]
        /\ ngets' = ngets + 1

-----------------------------------------------------------------------------
(* conv.py: class Schema                                                   *)

\* "enum"
EnumPrefix == <<101, 110, 117, 109>>

\* str.strip(), for the one whitespace character of the model's texts
RECURSIVE LStrip(_)
LStrip(s) == IF s # <<>> /\ Head(s) = Space THEN LStrip(Tail(s)) ELSE s

RECURSIVE RStrip(_)
RStrip(s) ==
    IF s # <<>> /\ s[Len(s)] = Space THEN RStrip(SubSeq(s, 1, Len(s) - 1)) ELSE s

Strip(s) == RStrip(LStrip(s))

IsDigit(c) == c \in 48..57

\* int(text) on texts of digits and letters: a decimal literal, or ValueError
IsInt(s) == s # <<>> /\ \A i \in 1..Len(s) : IsDigit(s[i])

RECURSIVE IntOf(_)
IntOf(s) == IF s = <<>> THEN 0 ELSE 10 * IntOf(SubSeq(s, 1, Len(s) - 1)) + (s[Len(s)] - 48)

EmptyTables == [labels |-> EmptyMap, enums |-> EmptyMap, consts |-> EmptyMap]

\* dict[key] = value
Store(dict, key, value) == [k \in DOMAIN dict \cup {key} |-> IF k = key THEN value ELSE dict[k]]

\* what one line of the text declares: the table it goes to ("skip" for a line
\* that is no directive), its key and value, or ValueError
ParseLine(rawline) ==
    LET line == Strip(rawline)
        Rest(prefix) == SubSeq(line, Len(prefix) + 2, Len(line))
        IntEntry(field, prefix) ==
            LET parts == Split(Rest(prefix), <<EqualsSign>>)
            IN  IF Len(parts) # 2 \/ ~IsInt(Strip(parts[2]))
                THEN [raised |-> "ValueError", field |-> field, key |-> <<>>, value |-> 0]
                ELSE [raised |-> "none", field |-> field,
                      key |-> Strip(parts[1]), value |-> IntOf(Strip(parts[2]))]
    IN  IF StartsWith(line, LabelPrefix \o <<Dot>>) THEN IntEntry("labels", LabelPrefix)
        ELSE IF StartsWith(line, EnumPrefix \o <<Dot>>) THEN IntEntry("enums", EnumPrefix)
        ELSE IF StartsWith(line, ConstPrefix \o <<Dot>>)
        THEN LET parts == Split(Rest(ConstPrefix), <<EqualsSign>>)
             IN  IF Len(parts) # 2
                 THEN [raised |-> "ValueError", field |-> "consts", key |-> <<>>, value |-> <<>>]
                 ELSE [raised |-> "none", field |-> "consts",
                       key |-> Strip(parts[1]), value |-> Strip(parts[2])]
        ELSE [raised |-> "none", field |-> "skip", key |-> <<>>, value |-> <<>>]

\* the grammar texts of the model: lines "label.N = 1", "enum.N = 2", "const.N = 3"
\* for the names N in "a", "b"; a comment line; and a directive without '='
Names == {<<97>>, <<98>>}

Directive(prefix, name, digit) == prefix \o <<Dot>> \o name \o <<Space, EqualsSign, Space, digit>>

Lines ==
    {Directive(LabelPrefix, n, 49) : n \in Names}
        \cup {Directive(EnumPrefix, n, 50) : n \in Names}
        \cup {Directive(ConstPrefix, n, 51) : n \in Names}
        \cup {<<59, Space, 97>>, EnumPrefix \o <<Dot, 97>>}

Texts == UNION {[1..n -> Lines] : n \in 0..MaxLines}

\* a text that is a hexadecimal number, and one that is a date and time
StrHex == <<97, 98>>
StrDate == <<49, 57, 55, 48, 45, 48, 49, 45, 48, 49, 84, 48, 48, 58, 48, 48, 58, 48, 49, 90>>

\* the grammars of the transcoder runs:
\*   an empty one
\*   label.a = 1, enum.b = 2, const.a = 3
\*   label.a = 1, enum.a = 2
\*   label.a = 1, const.ab = 3, enum.1970-01-01T00:00:01Z = 2
\*   enum.a = 2, const.a = 3, which the assertion of Schema.__init__ rejects
TranscodeTexts ==
    {<<>>,
     <<Directive(LabelPrefix, <<97>>, 49), Directive(EnumPrefix, <<98>>, 50),
       Directive(ConstPrefix, <<97>>, 51)>>,
     <<Directive(LabelPrefix, <<97>>, 49), Directive(EnumPrefix, <<97>>, 50)>>,
     <<Directive(LabelPrefix, <<97>>, 49), Directive(ConstPrefix, StrHex, 51),
       Directive(EnumPrefix, StrDate, 50)>>,
     <<Directive(EnumPrefix, <<97>>, 50), Directive(ConstPrefix, <<97>>, 51)>>}

TranscodeLines == UNION {{text[i] : i \in 1..Len(text)} : text \in TranscodeTexts}

\* ParseLine on the lines of the model's texts, computed once
ParsedLine == [l \in Lines \cup TranscodeLines |-> ParseLine(l)]

\* one iteration of the loop of Schema.__init__: the tables after, or ValueError
LoadLine(tables, rawline) ==
    CHOOSE after \in
        {IF d.raised # "none" THEN [raised |-> d.raised, tables |-> tables]
         ELSE IF d.field = "skip" THEN [raised |-> "none", tables |-> tables]
         ELSE [raised |-> "none",
               tables |-> [tables EXCEPT ![d.field] = Store(@, d.key, d.value)]] :
            d \in {IF rawline \in DOMAIN ParsedLine THEN ParsedLine[rawline]
                   ELSE ParseLine(rawline)}} : TRUE

RECURSIVE LoadLines(_, _)
LoadLines(tables, lines) ==
    IF lines = <<>> THEN [raised |-> "none", tables |-> tables]
    ELSE CHOOSE after \in
            {IF r.raised # "none" THEN r ELSE LoadLines(r.tables, Tail(lines)) :
                r \in {LoadLine(tables, Head(lines))}} : TRUE

KeysAccepted_unchecked(tables) == TRUE

\* the assertion that ends Schema.__init__
KeysAccepted(tables) == DOMAIN tables.consts \cap DOMAIN tables.enums = {}

\* Schema.__init__ over the class attributes `tables`: the attributes after it,
\* and the error it raises ("none" when the object is constructed)
Schema__init__(tables, text) ==
    LET r == LoadLines(tables, text)
    IN  IF r.raised # "none" THEN r
        ELSE IF ~KeysAccepted(r.tables) THEN [raised |-> "AssertionError", tables |-> r.tables]
        ELSE r

NoLoad == [called |-> FALSE, raised |-> "none", declared |-> EmptyTables]

\* schema = Schema(schema_path), the file holding `text`
NewSchema(text) ==
    LET r == Schema__init__(Schema, text)
    IN  /\ Schema' = r.tables
        /\ loaded' = [called |-> TRUE, raised |-> r.raised,
                      declared |-> LoadLines(EmptyTables, text).tables]

ConvInit == Schema = EmptyTables /\ loaded = NoLoad

-----------------------------------------------------------------------------
(* conv.py: simple_value_convert and mapped                                *)

\* the values of a JSON document and of its transcoding, each with its Python
\* type; a dict is the sequence of its items, in insertion order, the key of
\* an item being a value as well
NoneValue == [t |-> "none", v |-> <<>>]
StrValue(s) == [t |-> "str", v |-> s]
IntValue(n) == [t |-> "int", v |-> <<n>>]
BytesValue(b) == [t |-> "bytes", v |-> b]
ListValue(l) == [t |-> "list", v |-> l]
DictValue(items) == [t |-> "dict", v |-> items]
CBORTag(tag, value) == [t |-> "CBORTag", v |-> <<tag, value>>]

Return(value) == [err |-> "none", out |-> value]
Raise(error) == [err |-> error, out |-> NoneValue]

StrHashValue == <<104, 97, 115, 104, 86, 97, 108, 117, 101>>
StrCreated == <<99, 114, 101, 97, 116, 101, 100>>
StrTime == <<84, 105, 109, 101>>

EndsWith(s, p) == Len(s) >= Len(p) /\ SubSeq(s, Len(s) - Len(p) + 1, Len(s)) = p

\* the value of a hexadecimal digit, -1 for any other character
HexValue(c) ==
    IF c \in 48..57 THEN c - 48
    ELSE IF c \in 97..102 THEN c - 87
    ELSE IF c \in 65..70 THEN c - 55
    ELSE -1

RECURSIVE HexPairs(_)
HexPairs(s) ==
    IF s = <<>> THEN <<>>
    ELSE <<16 * HexValue(s[1]) + HexValue(s[2])>> \o HexPairs(SubSeq(s, 3, Len(s)))

\* bytes.fromhex(value), on texts without white space
fromhex(value) ==
    IF value.t # "str" THEN Raise("TypeError")
    ELSE IF Len(value.v) % 2 # 0 \/ \E i \in 1..Len(value.v) : HexValue(value.v[i]) < 0
    THEN Raise("ValueError")
    ELSE Return(BytesValue(HexPairs(value.v)))

\* value.replace(old, new) for texts
RECURSIVE ReplaceText(_, _, _)
ReplaceText(s, old, new) ==
    IF s = <<>> THEN <<>>
    ELSE IF StartsWith(s, old) THEN new \o ReplaceText(SubSeq(s, Len(old) + 1, Len(s)), old, new)
    ELSE <<Head(s)>> \o ReplaceText(Tail(s), old, new)

IsLeap(y) == y % 4 = 0 /\ (y % 100 # 0 \/ y % 400 = 0)

DaysInMonth(y, m) ==
    IF m = 2 THEN (IF IsLeap(y) THEN 29 ELSE 28)
    ELSE IF m \in {4, 6, 9, 11} THEN 30 ELSE 31

\* the days from 1970-01-01 to the day d of month m of year y
DaysFromEpoch(y, m, d) ==
    LET yy == IF m <= 2 THEN y - 1 ELSE y
        era == yy \div 400
        yoe == yy - era * 400
        doy == (153 * (IF m > 2 THEN m - 3 ELSE m + 9) + 2) \div 5 + d - 1
        doe == yoe * 365 + yoe \div 4 - yoe \div 100 + doy
    IN  era * 146097 + doe - 719468

\* YYYY-MM-DDTHH:MM:SS+00:00
IsoDigits == {1, 2, 3, 4, 6, 7, 9, 10, 12, 13, 15, 16, 18, 19}

IsoShaped(s) ==
    /\ Len(s) = 25
    /\ \A i \in IsoDigits : IsDigit(s[i])
    /\ s[5] = 45 /\ s[8] = 45 /\ s[11] = 84 /\ s[14] = Colon /\ s[17] = Colon
    /\ SubSeq(s, 20, 25) = <<43, 48, 48, 58, 48, 48>>

\* int(datetime.datetime.fromisoformat(s).timestamp()) on the texts of the
\* model: a UTC date and time to the second, or a text that is no date
fromisoformat_timestamp(s) ==
    IF ~IsoShaped(s) THEN Raise("ValueError")
    ELSE LET y == IntOf(SubSeq(s, 1, 4))
             m == IntOf(SubSeq(s, 6, 7))
             d == IntOf(SubSeq(s, 9, 10))
             hh == IntOf(SubSeq(s, 12, 13))
             mm == IntOf(SubSeq(s, 15, 16))
             ss == IntOf(SubSeq(s, 18, 19))
         IN  IF y < 1 \/ m \notin 1..12 \/ d \notin 1..DaysInMonth(y, m)
                  \/ hh > 23 \/ mm > 59 \/ ss > 59
             THEN Raise("ValueError")
             ELSE Return(CBORTag(1, DaysFromEpoch(y, m, d) * 86400
                                          + hh * 3600 + mm * 60 + ss))

\* lines 41-49
Timestamp(value) ==
    IF value.t # "str" THEN Raise("AttributeError")
    ELSE fromisoformat_timestamp(ReplaceText(value.v, <<90>>, <<43, 48, 48, 58, 48, 48>>))

Interned_enum_first(value, schema) ==
    IF value.t = "str" /\ value.v \in DOMAIN schema.enums
    THEN Return(IntValue(schema.enums[value.v]))
    ELSE IF value.t = "str" /\ value.v \in DOMAIN schema.consts
    THEN Return(StrValue(schema.consts[value.v]))
    ELSE Return(value)

\* lines 50-55: the entry of a table for a string, or the value itself; an
\* entry of consts is the text Schema.__init__ stored, one of enums an integer
Interned(value, schema) ==
    IF value.t = "str" /\ value.v \in DOMAIN schema.consts
    THEN Return(StrValue(schema.consts[value.v]))
    ELSE IF value.t = "str" /\ value.v \in DOMAIN schema.enums
    THEN Return(IntValue(schema.enums[value.v]))
    ELSE Return(value)

\* simple_value_convert(key, value, schema): what it returns, or what it raises
simple_value_convert(key, value, schema) ==
    IF key = StrHashValue THEN fromhex(value)
    ELSE IF key = StrCreated \/ EndsWith(key, StrTime) THEN Timestamp(value)
    ELSE Interned(value, schema)

\* schema.labels.get(key, key)
LabelOf(key, schema) ==
    IF key \in DOMAIN schema.labels THEN IntValue(schema.labels[key]) ELSE StrValue(key)

\* map[key] = value
SetItem(map, key, value) ==
    IF \E i \in 1..Len(map) : map[i].key = key
    THEN [i \in 1..Len(map) |-> IF map[i].key = key THEN [key |-> key, val |-> value]
                                ELSE map[i]]
    ELSE Append(map, [key |-> key, val |-> value])

RECURSIVE mapped(_, _)
RECURSIVE MappedItems(_, _, _)
RECURSIVE MappedFields(_, _, _)

MappedItem_converting(item, schema) ==
    IF item.t = "dict" THEN mapped(item, schema) ELSE Interned(item, schema)

\* lines 66-67: mapped(item, schema) if isinstance(item, dict) else item
MappedItem(item, schema) ==
    IF item.t = "dict" THEN mapped(item, schema) ELSE Return(item)

\* lines 65-68: the list comprehension, `done` being the elements built so far
ItemMapped(items, schema, done, r) ==
    IF r.err # "none" THEN r ELSE MappedItems(Tail(items), schema, Append(done, r.out))

MappedItems(items, schema, done) ==
    IF items = <<>> THEN Return(ListValue(done))
    ELSE ItemMapped(items, schema, done, MappedItem(Head(items), schema))

\* lines 61-68: val
ValOf(value, schema) ==
    IF value.t = "dict" THEN mapped(value, schema)
    ELSE IF value.t = "list" THEN MappedItems(value.v, schema, <<>>)
    ELSE Return(value)

\* line 69
Converted(fields, schema, map, c) ==
    IF c.err # "none" THEN c
    ELSE MappedFields(Tail(fields), schema, SetItem(map, LabelOf(Head(fields).key.v, schema), c.out))

ValComputed(fields, schema, map, val) ==
    IF val.err # "none" THEN val
    ELSE Converted(fields, schema, map, simple_value_convert(Head(fields).key.v, val.out, schema))

\* lines 60-70: the loop over document.items(), `map` being the dict built so far
MappedFields(fields, schema, map) ==
    IF fields = <<>> THEN Return(DictValue(map))
    ELSE ValComputed(fields, schema, map, ValOf(Head(fields).val, schema))

\* mapped(document, schema): the new dict, or the error raised
mapped(doc, schema) == MappedFields(doc.v, schema, <<>>)

-----------------------------------------------------------------------------
(* gen.py: the shape classes and find_type.  A schema node is a function    *)
(* from its keys to their values, as the dict json.loads returns.           *)

\* schema.get("type")
TypeOf(schema) == IF "type" \in DOMAIN schema THEN schema["type"] ELSE "None"

StringType_is_one(schema) ==
    TypeOf(schema) = "string" /\ DOMAIN schema \subseteq {"type", "pattern", "allOf"}

ConstType_is_one(schema) == DOMAIN schema = {"const"}

NumberType_is_one(schema) ==
    TypeOf(schema) = "number" /\ DOMAIN schema \subseteq {"type", "minimum", "maximum"}

IntegerType_is_one(schema) ==
    TypeOf(schema) = "integer" /\ DOMAIN schema \subseteq {"type", "minimum", "maximum"}

ArrayType_is_one(schema) ==
    /\ TypeOf(schema) = "array"
    /\ DOMAIN schema \subseteq {"type", "items", "minItems", "description"}

BooleanType_is_one(schema) == TypeOf(schema) = "boolean"

AnyOfType_is_one(schema) == DOMAIN schema = {"anyOf"}

IfThenElseType_is_one(schema) == DOMAIN schema = {"if", "then", "else"}

EnumType_is_one(schema) == DOMAIN schema = {"enum"}

NotConstType_is_one(schema) == DOMAIN schema = {"not"} /\ ConstType_is_one(schema["not"])

RefType_is_one(schema) ==
    \/ DOMAIN schema = {"$ref"}
    \/ /\ DOMAIN schema = {"$ref", "type", "unevaluatedProperties"}
       /\ TypeOf(schema) = "object"

AllOfType_is_one(schema) == DOMAIN schema = {"allOf"}

ObjectType_is_one_any_keys(schema) ==
    /\ TypeOf(schema) = "object"
    /\ ~({"properties", "anyOf"} \subseteq DOMAIN schema)

ObjectType_is_one(schema) ==
    /\ TypeOf(schema) = "object"
    /\ DOMAIN schema \subseteq
          {"type", "unevaluatedProperties", "anyOf", "required", "properties"}
    /\ ~({"properties", "anyOf"} \subseteq DOMAIN schema)

IfThenElseObjectType_is_one(schema) ==
    /\ TypeOf(schema) = "object"
    /\ DOMAIN schema \subseteq
          {"type", "unevaluatedProperties", "required", "properties", "if", "then", "else"}
    /\ {"if", "then", "else"} \subseteq DOMAIN schema

is_one(type_class, schema) ==
    CASE type_class = "StringType" -> StringType_is_one(schema)
      [] type_class = "NumberType" -> NumberType_is_one(schema)
      [] type_class = "IntegerType" -> IntegerType_is_one(schema)
      [] type_class = "AnyOfType" -> AnyOfType_is_one(schema)
      [] type_class = "EnumType" -> EnumType_is_one(schema)
      [] type_class = "BooleanType" -> BooleanType_is_one(schema)
      [] type_class = "RefType" -> RefType_is_one(schema)
      [] type_class = "ConstType" -> ConstType_is_one(schema)
      [] type_class = "ObjectType" -> ObjectType_is_one(schema)
      [] type_class = "AllOfType" -> AllOfType_is_one(schema)
      [] type_class = "ArrayType" -> ArrayType_is_one(schema)
      [] type_class = "IfThenElseType" -> IfThenElseType_is_one(schema)
      [] type_class = "NotConstType" -> NotConstType_is_one(schema)
      [] type_class = "IfThenElseObjectType" -> IfThenElseObjectType_is_one(schema)

\* the list find_type walks, in its order
TypeClasses ==
    <<"StringType", "NumberType", "IntegerType", "AnyOfType", "EnumType", "BooleanType",
      "RefType", "ConstType", "ObjectType", "AllOfType", "ArrayType", "IfThenElseType",
      "NotConstType", "IfThenElseObjectType">>

\* find_type over a given list of classes: the first whose is_one holds, or None
RECURSIVE find_type_in(_, _)
find_type_in(classes, schema) ==
    IF classes = <<>> THEN "None"
    ELSE IF is_one(Head(classes), schema) THEN Head(classes)
    ELSE find_type_in(Tail(classes), schema)

find_type(schema) == find_type_in(TypeClasses, schema)

(* The nodes given to find_type in SpecClassify: every set of at most      *)
(* MaxKeys of the construction keys the classes test, with every value of  *)
(* "type" and, under "not", a const node or another node.                  *)
ConstructionKeys ==
    {"type", "pattern", "allOf", "minimum", "maximum", "items", "minItems", "description",
     "anyOf", "if", "then", "else", "enum", "const", "not", "$ref",
     "unevaluatedProperties", "required", "properties"}

TypeValues == {"string", "number", "integer", "array", "boolean", "object", "null"}

ConstNode == [k \in {"const"} |-> "c"]
RefNode == [k \in {"$ref"} |-> "r"]

KeySets == {K \in SUBSET ConstructionKeys : Cardinality(K) <= MaxKeys}

NodeOf(K, t, n) ==
    [k \in K |-> IF k = "type" THEN t ELSE IF k = "not" THEN n ELSE "v"]

ClassifyNodes ==
    {NodeOf(K, t, n) : K \in KeySets, t \in TypeValues, n \in {ConstNode, RefNode}}

ClassInit == node = <<>> /\ klass = "pending"

-----------------------------------------------------------------------------
(* gen.py: translation of a node to CDDL text (the cddl methods).          *)

\* str(n) for an integer
RECURSIVE Digits(_)
Digits(n) == IF n < 10 THEN <<48 + n>> ELSE Digits(n \div 10) \o <<48 + (n % 10)>>

IntToStr(n) == IF n < 0 THEN <<45>> \o Digits(0 - n) ELSE Digits(n)

\* the separators and words of the emitted text
SepAlt == <<32, 47, 32>>
SepComma == <<44, 32>>
SepArrow == <<32, 61, 62, 32>>
StrAny == <<97, 110, 121>>
StrNone == <<78, 111, 110, 101>>
StrAnyObject == <<65, 110, 121, 79, 98, 106, 101, 99, 116>>
StrDefs == <<35, 47, 36, 100, 101, 102, 115>>
StrNotA == <<78, 111, 116, 32, 97>>
StrLabelType == <<116, 121, 112, 101>>

\* what a cddl call gives: the text returned (or None), or the exception raised,
\* and the interners LABELS and CONSTS after it
Returned(out, st) == [err |-> "none", none |-> FALSE, out |-> out, st |-> st]
ReturnedNone(st) == [err |-> "none", none |-> TRUE, out |-> <<>>, st |-> st]
Raised(err, st) == [err |-> err, none |-> FALSE, out |-> <<>>, st |-> st]

\* a value formatted inside an f-string
Format(r) == IF r.none THEN StrNone ELSE r.out

\* sep.join(parts) over returned values: TypeError when one of them is None
JoinReturned(parts, sep, st) ==
    IF \E i \in 1..Len(parts) : parts[i].none THEN Raised("TypeError", st)
    ELSE Returned(Join([i \in 1..Len(parts) |-> parts[i].out], sep), st)

\* { inner }
Braced(inner) == <<123, 32>> \o inner \o <<32, 125>>

\* o.get(entry) on the interners st
InternIn(st, o, entry) ==
    LET r == get(st[o], entry)
    IN  [raised |-> r.raised, value |-> r.value, st |-> [st EXCEPT ![o] = r.self]]

\* drop_weaker_constraints, the loop over the parts: the weaker positions by
\* label, the defined labels, or ValueError from the unpacking of split(" => ")
RECURSIVE ScanParts(_, _, _, _)
ScanParts(parts, pos, weaker, defined) ==
    IF pos > Len(parts) THEN [err |-> "none", weaker |-> weaker, defined |-> defined]
    ELSE LET part == parts[pos]
         IN  IF ~Contains(part, SepArrow) THEN ScanParts(parts, pos + 1, weaker, defined)
             ELSE LET sp == Split(part, SepArrow)
                  IN  IF Len(sp) # 2
                      THEN [err |-> "ValueError", weaker |-> weaker, defined |-> defined]
                      ELSE IF StartsWith(sp[1], <<63>>)
                      THEN ScanParts(parts, pos + 1, Store(weaker, Tail(sp[1]), pos - 1), defined)
                      ELSE IF sp[2] = StrAny
                      THEN ScanParts(parts, pos + 1, Store(weaker, sp[1], pos - 1), defined)
                      ELSE ScanParts(parts, pos + 1, weaker, defined \cup {sp[1]})

\* the subsequence of parts at the positions (from 0) not in dropped
RECURSIVE Kept(_, _, _)
Kept(parts, pos, dropped) ==
    IF pos > Len(parts) THEN <<>>
    ELSE (IF (pos - 1) \in dropped THEN <<>> ELSE <<parts[pos]>>) \o Kept(parts, pos + 1, dropped)

\* drop_weaker_constraints(seq): the text returned, or the exception raised
drop_weaker_constraints(seq) ==
    LET parts == Split(seq, SepComma)
        scan == ScanParts(parts, 1, EmptyMap, {})
        dropped_weaker == {scan.weaker[l] : l \in DOMAIN scan.weaker \cap scan.defined}
    IN  IF scan.err # "none" THEN [err |-> scan.err, out |-> <<>>]
        ELSE [err |-> "none", out |-> Join(Kept(parts, 1, dropped_weaker), SepComma)]

\* the classes whose cddl takes the keyword unwrap
TakesUnwrap == {"NotConstType", "RefType", "AllOfType", "ObjectType"}

\* escape_pattern: every backslash doubled
RECURSIVE escape_pattern(_)
escape_pattern(pattern) ==
    IF pattern = <<>> THEN <<>>
    ELSE (IF Head(pattern) = 92 THEN <<92, 92>> ELSE <<Head(pattern)>>)
            \o escape_pattern(Tail(pattern))

Regexp(pattern) == <<116, 115, 116, 114, 32, 46, 114, 101, 103, 101, 120, 112, 32, 34>> \o escape_pattern(pattern) \o <<34>>

\* str.rsplit("/", 1)
RSplitSlash(s) ==
    IF ~Contains(s, <<Slash>>) THEN <<s>>
    ELSE LET i == CHOOSE j \in 1..Len(s) :
                    s[j] = Slash /\ \A k \in (j + 1)..Len(s) : s[k] # Slash
         IN  <<SubSeq(s, 1, i - 1), SubSeq(s, i + 1, Len(s))>>

RECURSIVE Cddl(_, _, _, _)
RECURSIVE CddlEach(_, _, _, _)
RECURSIVE ObjectProperties(_, _, _, _)

StringType_cddl(schema, st) ==
    IF "pattern" \in DOMAIN schema THEN Returned(Regexp(schema["pattern"]), st)
    ELSE IF "allOf" \in DOMAIN schema
    THEN LET values == schema["allOf"]
         IN  IF \E i \in 1..Len(values) : DOMAIN values[i] # {"pattern"}
             THEN Raised("AssertionError", st)
             ELSE Returned(Join([i \in 1..Len(values) |-> Regexp(values[i]["pattern"])],
                                SepAlt), st)
    ELSE Returned(<<116, 115, 116, 114>>, st)

ConstType_cddl(schema, st) ==
    LET r == InternIn(st, "CONSTS", schema["const"])
    IN  IF r.raised THEN Raised("ValueError", r.st) ELSE Returned(r.value, r.st)

NumberType_cddl(schema, st) ==
    IF "maximum" \in DOMAIN schema THEN Raised("AssertionError", st)
    ELSE IF "minimum" \notin DOMAIN schema THEN Returned(<<102, 108, 111, 97, 116>>, st)
    ELSE IF schema["minimum"] >= 0
    THEN Returned(<<102, 108, 111, 97, 116, 32, 46, 103, 101, 32>> \o IntToStr(schema["minimum"]), st)
    ELSE ReturnedNone(st)

IntegerType_cddl(schema, st) ==
    IF "minimum" \notin DOMAIN schema \/ "maximum" \in DOMAIN schema
    THEN Raised("AssertionError", st)
    ELSE IF schema["minimum"] >= 0
    THEN IF schema["minimum"] = 0 THEN Returned(<<117, 105, 110, 116>>, st)
         ELSE Returned(<<117, 105, 110, 116, 32, 46, 103, 101, 32>> \o IntToStr(schema["minimum"]), st)
    ELSE Returned(<<105, 110, 116>>, st)

ArrayType_cddl(schema, st) ==
    IF "items" \notin DOMAIN schema THEN Raised("KeyError", st)
    ELSE LET type_class == find_type(schema["items"])
         IN  IF type_class = "None" THEN Raised("NotImplementedError", st)
             ELSE LET item == Cddl(type_class, schema["items"], FALSE, st)
                      minItems == IF "minItems" \in DOMAIN schema THEN schema["minItems"] ELSE 0
                  IN  IF item.err # "none" THEN item
                      ELSE IF minItems = 0
                      THEN Returned(<<91, 32, 42, 32>> \o Format(item) \o <<32, 93>>, item.st)
                      ELSE Returned(<<91, 32, 43, 32>> \o Format(item) \o <<32, 93>>, item.st)

BooleanType_cddl(schema, st) == Returned(<<98, 111, 111, 108>>, st)

\* the loop of AnyOfType.cddl and of AllOfType.cddl: each subschema classified
\* and translated, with unwrap=True when unwrap is set
CddlEach(subschemas, unwrap, parts, st) ==
    IF subschemas = <<>> THEN [err |-> "none", parts |-> parts, st |-> st]
    ELSE LET type_class == find_type(Head(subschemas))
         IN  IF type_class = "None"
             THEN [err |-> "NotImplementedError", parts |-> parts, st |-> st]
             ELSE LET r == Cddl(type_class, Head(subschemas), unwrap, st)
                  IN  IF r.err # "none" THEN [err |-> r.err, parts |-> parts, st |-> r.st]
                      ELSE CddlEach(Tail(subschemas), unwrap, Append(parts, r), r.st)

AnyOfType_cddl(schema, st) ==
    LET each == CddlEach(schema["anyOf"], FALSE, <<>>, st)
    IN  IF each.err # "none" THEN Raised(each.err, each.st)
        ELSE JoinReturned(each.parts, SepAlt, each.st)

\* cddl(schema[key], unwrap=True) after find_type, as the conditionals do
Branch(schema, key, st) ==
    LET type_class == find_type(schema[key])
    IN  IF type_class = "None" THEN Raised("NotImplementedError", st)
        ELSE Cddl(type_class, schema[key], TRUE, st)

\* { drop_weaker_constraints(', '.join(parts)) }
Simplified(parts, st) ==
    LET joined == JoinReturned(parts, SepComma, st)
        reduced == drop_weaker_constraints(joined.out)
    IN  IF joined.err # "none" THEN joined
        ELSE IF reduced.err # "none" THEN Raised(reduced.err, st)
        ELSE Returned(Braced(reduced.out), st)

IfThenElseType_cddl(schema, st) ==
    LET if == Branch(schema, "if", st)
        then == Branch(schema, "then", if.st)
        else_schema == schema["else"]
    IN  IF if.err # "none" THEN if
        ELSE IF then.err # "none" THEN then
        ELSE IF DOMAIN else_schema # {} /\ DOMAIN else_schema # {"const"}
        THEN Raised("AssertionError", then.st)
        ELSE IF DOMAIN else_schema # {} /\ ~StartsWith(else_schema["const"], StrNotA)
        THEN Raised("AssertionError", then.st)
        ELSE Simplified(<<if, then>>, then.st)

\* the loop of EnumType.cddl; an enum value is [str |-> text] or [num |-> n]
RECURSIVE EnumParts(_, _, _)
EnumParts(values, parts, st) ==
    IF values = <<>> THEN [err |-> "none", parts |-> parts, st |-> st]
    ELSE IF "str" \in DOMAIN Head(values)
    THEN LET r == InternIn(st, "CONSTS", Head(values).str)
         IN  IF r.raised THEN [err |-> "ValueError", parts |-> parts, st |-> r.st]
             ELSE EnumParts(Tail(values), Append(parts, r.value), r.st)
    ELSE EnumParts(Tail(values), Append(parts, IntToStr(Head(values).num)), st)

EnumType_cddl(schema, st) ==
    LET each == EnumParts(schema["enum"], <<>>, st)
    IN  IF each.err # "none" THEN Raised(each.err, each.st)
        ELSE Returned(Join(each.parts, SepAlt), each.st)

NotConstType_cddl(schema, unwrap, st) == Returned(<<>>, st)

RefType_cddl(schema, unwrap, st) ==
    LET parts == RSplitSlash(schema["$ref"])
    IN  IF Len(parts) # 2 THEN Raised("ValueError", st)
        ELSE IF parts[1] # StrDefs THEN Raised("AssertionError", st)
        ELSE Returned(IF unwrap THEN <<126>> \o parts[2] ELSE parts[2], st)

AllOfType_cddl(schema, unwrap, st) ==
    LET each == CddlEach(schema["allOf"], TRUE, <<>>, st)
        inner == JoinReturned(each.parts, SepComma, each.st)
    IN  IF each.err # "none" THEN Raised(each.err, each.st)
        ELSE IF inner.err # "none" THEN inner
        ELSE Returned(IF unwrap THEN inner.out ELSE Braced(inner.out), each.st)

\* the loop of ObjectType.cddl over schema["properties"], a list of
\* [name |-> prop_name, schema |-> prop_schema] in the order of the dict
ObjectProperties(properties, required, parts, st) ==
    IF properties = <<>> THEN [err |-> "none", parts |-> parts, st |-> st]
    ELSE LET prop_name == Head(properties).name
             prop_schema == Head(properties).schema
             type_class == find_type(prop_schema)
             optionality == IF \E i \in 1..Len(required) : required[i] = prop_name
                            THEN <<>> ELSE <<63>>
             interned == InternIn(st, "LABELS", prop_name)
             r == Cddl(type_class, prop_schema, FALSE, interned.st)
         IN  IF type_class = "None"
             THEN [err |-> "NotImplementedError", parts |-> parts, st |-> st]
             ELSE IF interned.raised
             THEN [err |-> "ValueError", parts |-> parts, st |-> interned.st]
             ELSE IF r.err # "none" THEN [err |-> r.err, parts |-> parts, st |-> r.st]
             ELSE ObjectProperties(Tail(properties), required,
                      Append(parts, optionality \o interned.value \o SepArrow \o Format(r)),
                      r.st)

\* the loop of ObjectType.cddl over schema["required"]
RECURSIVE RequiredAny(_, _, _)
RequiredAny(required, parts, st) ==
    IF required = <<>> THEN [err |-> "none", parts |-> parts, st |-> st]
    ELSE LET interned == InternIn(st, "LABELS", Head(required))
         IN  IF interned.raised THEN [err |-> "ValueError", parts |-> parts, st |-> interned.st]
             ELSE RequiredAny(Tail(required),
                              Append(parts, interned.value \o SepArrow \o StrAny), interned.st)

ObjectType_cddl(schema, unwrap, st) ==
    IF "anyOf" \in DOMAIN schema
    THEN AnyOfType_cddl([k \in {"anyOf"} |-> schema["anyOf"]], st)
    ELSE IF "properties" \in DOMAIN schema
    THEN LET required == IF "required" \in DOMAIN schema THEN schema["required"] ELSE <<>>
             each == ObjectProperties(schema["properties"], required, <<>>, st)
             unevaluated == IF "unevaluatedProperties" \in DOMAIN schema
                            THEN schema["unevaluatedProperties"] ELSE TRUE
             inner == Join(each.parts, SepComma)
         IN  IF each.err # "none" THEN Raised(each.err, each.st)
             ELSE IF each.parts = <<>> /\ unevaluated
             THEN Returned(IF unwrap THEN <<126>> \o StrAnyObject ELSE StrAnyObject, each.st)
             ELSE Returned(IF unwrap THEN inner ELSE Braced(inner), each.st)
    ELSE IF "required" \in DOMAIN schema
    THEN LET each == RequiredAny(schema["required"], <<>>, st)
             inner == Join(each.parts, SepComma)
         IN  IF each.err # "none" THEN Raised(each.err, each.st)
             ELSE Returned(IF unwrap THEN inner ELSE Braced(inner), each.st)
    ELSE Raised("NotImplementedError", st)

IfThenElseObjectType_cddl(schema, st) ==
    LET if == Branch(schema, "if", st)
        then == Branch(schema, "then", if.st)
        else == Branch(schema, "else", then.st)
        first == Simplified(<<if, then>>, else.st)
        second == Simplified(<<else>>, else.st)
    IN  IF if.err # "none" THEN if
        ELSE IF then.err # "none" THEN then
        ELSE IF else.err # "none" THEN else
        ELSE IF first.err # "none" THEN first
        ELSE IF second.err # "none" THEN second
        ELSE Returned(first.out \o SepAlt \o second.out, else.st)

\* type_class.cddl(schema) when unwrap is FALSE, type_class.cddl(schema, unwrap=True)
\* when it is TRUE: TypeError when the method takes no such keyword
Cddl(type_class, schema, unwrap, st) ==
    IF unwrap /\ type_class \notin TakesUnwrap THEN Raised("TypeError", st)
    ELSE CASE type_class = "StringType" -> StringType_cddl(schema, st)
           [] type_class = "NumberType" -> NumberType_cddl(schema, st)
           [] type_class = "IntegerType" -> IntegerType_cddl(schema, st)
           [] type_class = "AnyOfType" -> AnyOfType_cddl(schema, st)
           [] type_class = "EnumType" -> EnumType_cddl(schema, st)
           [] type_class = "BooleanType" -> BooleanType_cddl(schema, st)
           [] type_class = "RefType" -> RefType_cddl(schema, unwrap, st)
           [] type_class = "ConstType" -> ConstType_cddl(schema, st)
           [] type_class = "ObjectType" -> ObjectType_cddl(schema, unwrap, st)
           [] type_class = "AllOfType" -> AllOfType_cddl(schema, unwrap, st)
           [] type_class = "ArrayType" -> ArrayType_cddl(schema, st)
           [] type_class = "IfThenElseType" -> IfThenElseType_cddl(schema, st)
           [] type_class = "NotConstType" -> NotConstType_cddl(schema, unwrap, st)
           [] type_class = "IfThenElseObjectType" -> IfThenElseObjectType_cddl(schema, st)

-----------------------------------------------------------------------------
(* gen.py: class Grouping                                                  *)

\* Grouping._PROFILES_NAMES
PROFILES_NAMES ==
    <<<<83, 111, 102, 116, 119, 97, 114, 101>>,
      <<83, 101, 99, 117, 114, 105, 116, 121>>,
      <<76, 105, 99, 101, 110, 115, 105, 110, 103>>,
      <<83, 105, 109, 112, 108, 101, 76, 105, 99, 101, 110, 115, 105, 110, 103>>,
      <<69, 120, 112, 97, 110, 100, 101, 100, 76, 105, 99, 101, 110, 115, 105, 110, 103>>,
      <<68, 97, 116, 97, 115, 101, 116>>,
      <<65, 73>>,
      <<66, 117, 105, 108, 100>>,
      <<76, 105, 116, 101>>,
      <<69, 120, 116, 101, 110, 115, 105, 111, 110>>>>

StrCore == <<67, 111, 114, 101>>

\* str.lower()
Lower(s) == [i \in 1..Len(s) |-> IF s[i] \in 65..90 THEN s[i] + 32 ELSE s[i]]

\* self.profile_map, in the order its keys are inserted
RECURSIVE ProfileMapFrom(_)
ProfileMapFrom(names) ==
    IF names = <<>> THEN <<>>
    ELSE <<[key |-> Lower(Head(names)), profile |-> Head(names)],
           [key |-> <<112, 114, 111, 112, 95>> \o Lower(Head(names)), profile |-> Head(names)]>>
            \o ProfileMapFrom(Tail(names))

profile_map == ProfileMapFrom(PROFILES_NAMES)

\* the buckets of self.profiles, in the order the dict holds them
ProfileOrder == Append(PROFILES_NAMES, StrCore)

RECURSIVE MatchingProfiles_anywhere(_, _)
MatchingProfiles_anywhere(name, map) ==
    IF map = <<>> THEN <<>>
    ELSE (IF Contains(name, Head(map).key) THEN <<Head(map).profile>> ELSE <<>>)
            \o MatchingProfiles_anywhere(name, Tail(map))

\* the inner loop of Grouping.__init__ for one definition: the profile of every
\* matching key, in the order of the keys
RECURSIVE MatchingProfiles(_, _)
MatchingProfiles(name, map) ==
    IF map = <<>> THEN <<>>
    ELSE (IF StartsWith(name, Head(map).key) THEN <<Head(map).profile>> ELSE <<>>)
            \o MatchingProfiles(name, Tail(map))

RECURSIVE AppendTo(_, _, _)
AppendTo(profiles, names, definition) ==
    IF names = <<>> THEN profiles
    ELSE AppendTo([profiles EXCEPT ![Head(names)] = Append(@, definition)],
                  Tail(names), definition)

\* the outer loop of Grouping.__init__; defs is the list of the items of the
\* dict, each [name |-> name, schema |-> schema]
RECURSIVE GroupDefs(_, _, _)
GroupDefs(defs, profiles, default) ==
    IF defs = <<>> THEN profiles
    ELSE LET matching == MatchingProfiles(Head(defs).name, profile_map)
             buckets == IF matching = <<>> THEN default ELSE matching
         IN  GroupDefs(Tail(defs), AppendTo(profiles, buckets, Head(defs)), default)

EmptyProfiles == [p \in {ProfileOrder[i] : i \in 1..Len(ProfileOrder)} |-> <<>>]

Grouping_without_core(defs) == GroupDefs(defs, EmptyProfiles, <<>>)

\* Grouping(defs).profiles
Grouping(defs) == GroupDefs(defs, EmptyProfiles, <<StrCore>>)

\* grouping.to_profile(lower): the profile, or KeyError
to_profile(lower) ==
    IF \E i \in 1..Len(profile_map) : profile_map[i].key = lower
    THEN [err |-> "none",
          profile |-> profile_map[CHOOSE i \in 1..Len(profile_map) :
                                    profile_map[i].key = lower].profile]
    ELSE [err |-> "KeyError", profile |-> <<>>]

-----------------------------------------------------------------------------
(* gen.py: traverse, refs, totalrefs                                       *)

\* the keys whose value is a node, and those whose value is a list of nodes; the
\* value of "properties" is a dict of nodes, the lists under "enum" and
\* "required" hold no node
NodeKeys == {"items", "if", "then", "else", "not"}
NodeListKeys == {"anyOf", "allOf"}

KeyOrder ==
    <<"type", "pattern", "allOf", "minimum", "maximum", "items", "minItems", "description",
      "anyOf", "if", "then", "else", "enum", "const", "not", "$ref",
      "unevaluatedProperties", "required", "properties">>

\* the values traverse yields under the key "$ref", as a list (the keys of a
\* node are visited in KeyOrder, the order does not change the list's contents)
RECURSIVE RefValues(_)
RECURSIVE RefValuesOfKeys(_, _)
RECURSIVE RefValuesOfList(_)
RefValuesOfList(nodes) ==
    IF nodes = <<>> THEN <<>> ELSE RefValues(Head(nodes)) \o RefValuesOfList(Tail(nodes))

RefValuesOfKeys(schema, keys) ==
    IF keys = <<>> THEN <<>>
    ELSE LET key == Head(keys)
             here ==
                IF key \notin DOMAIN schema THEN <<>>
                ELSE IF key \in NodeKeys THEN RefValues(schema[key])
                ELSE IF key \in NodeListKeys THEN RefValuesOfList(schema[key])
                ELSE IF key = "properties"
                THEN RefValuesOfList([i \in 1..Len(schema[key]) |-> schema[key][i].schema])
                ELSE IF key = "$ref" THEN <<schema[key]>>
                ELSE <<>>
         IN  here \o RefValuesOfKeys(schema, Tail(keys))

RefValues(schema) == RefValuesOfKeys(schema, KeyOrder)

\* refs(node)
refs(schema) == Len(RefValues(schema))

DefNames(defs) == {defs[i].name : i \in 1..Len(defs)}
DefSchema(defs, name) == defs[CHOOSE i \in 1..Len(defs) : defs[i].name = name].schema

\* value.split("/")[-1]
LastSegment(value) == LET parts == Split(value, <<Slash>>) IN parts[Len(parts)]

\* the locals of totalrefs when it enters its loop
TotalRefsLocals(name) == [unresolved |-> {name}, seen |-> {}, count |-> 0, err |-> "none"]

TotalRefsIteration_forgets_seen(locals, node_name, defs) ==
    IF node_name \notin DefNames(defs)
    THEN [locals EXCEPT !.unresolved = @ \ {node_name}, !.err = "KeyError"]
    ELSE LET values == RefValues(DefSchema(defs, node_name))
             refnames == {LastSegment(value) : value \in {values[i] : i \in 1..Len(values)}}
         IN  [locals EXCEPT !.unresolved = (@ \ {node_name}) \cup (refnames \ locals.seen),
                            !.count = @ + Len(values)]

\* one iteration of the while loop of totalrefs, node_name being what
\* unresolved.pop() gave: the locals after it, err being the exception raised
TotalRefsIteration(locals, node_name, defs) ==
    LET seen == locals.seen \cup {node_name}
    IN  IF node_name \notin DefNames(defs)
        THEN [locals EXCEPT !.unresolved = @ \ {node_name}, !.seen = seen,
                            !.err = "KeyError"]
        ELSE LET values == RefValues(DefSchema(defs, node_name))
                 refnames == {LastSegment(value) : value \in {values[i] : i \in 1..Len(values)}}
             IN  [locals EXCEPT !.unresolved = (@ \ {node_name}) \cup (refnames \ seen),
                                !.seen = seen,
                                !.count = @ + Len(values)]

\* the while loop of totalrefs, with one choice of what unresolved.pop() gives
RECURSIVE TotalRefsLoop(_, _, _, _)
TotalRefsLoop(unresolved, seen, count, defs) ==
    IF unresolved = {} THEN [err |-> "none", count |-> count]
    ELSE LET after == TotalRefsIteration(
                        [unresolved |-> unresolved, seen |-> seen, count |-> count,
                         err |-> "none"],
                        CHOOSE n \in unresolved : TRUE, defs)
         IN  IF after.err # "none" THEN [err |-> after.err, count |-> count]
             ELSE TotalRefsLoop(after.unresolved, after.seen, after.count, defs)

totalrefs(name, defs) == TotalRefsLoop({name}, {}, 0, defs)

-----------------------------------------------------------------------------
(* gen.py: the rendering of the two interning tables                       *)

\* the indexes held by self.entries
Indexes(self) == {self.entries[k] : k \in DOMAIN self.entries}

\* the name holding index n in self.entries
NameAt(self, n) == CHOOSE k \in DOMAIN self.entries : self.entries[k] = n

\* sorted(self.entries.items(), key=lambda x: x[1])
SortedEntries(self) ==
    LET indexes == Indexes(self)
        Nth[i \in 0..Cardinality(indexes)] ==
            IF i = 0 THEN <<>>
            ELSE LET n == CHOOSE m \in indexes :
                            Cardinality({x \in indexes : x < m}) = i - 1
                 IN  Append(Nth[i - 1], [name |-> NameAt(self, n), index |-> n])
    IN  Nth[Cardinality(indexes)]

\* str.split(sep, 1) for a single character
SplitOnce(s, c) ==
    IF ~Contains(s, <<c>>) THEN <<s>>
    ELSE LET i == CHOOSE j \in 1..Len(s) : s[j] = c /\ \A k \in 1..(j - 1) : s[k] # c
         IN  <<SubSeq(s, 1, i - 1), SubSeq(s, i + 1, Len(s))>>

\* "name = index"
Declaration(name, index) == name \o <<32, 61, 32>> \o IntToStr(index)

PropertiesUrl == <<59, 32, 104, 116, 116, 112, 115, 58, 47, 47, 115, 112, 100, 120, 46, 103, 105, 116, 104, 117, 98, 46, 105, 111, 47, 115, 112, 100, 120, 45, 115, 112, 101, 99, 47, 118, 51, 46, 48, 46, 49, 47, 109, 111, 100, 101, 108, 47>>

\* ContiguousInternedEntries.definitions: the lines of the text returned
ConstDefinitions(self) ==
    LET sorted == SortedEntries(self)
    IN  [i \in 1..Len(sorted) |-> Declaration(sorted[i].name, sorted[i].index)]

\* ContiguousInternedLabels.definitions, the loop: the lines written, or the
\* exception raised
RECURSIVE LabelLines(_, _, _)
LabelLines(self, sorted, lines) ==
    IF sorted = <<>> THEN [err |-> "none", lines |-> lines]
    ELSE LET name == Head(sorted).name
             parts == SplitOnce(name, Dot)
             full_name == parts[2]
             split == SplitOnce(full_name, Underscore)
             found == to_profile(split[1])
             profile == IF Len(split) = 2 THEN found.profile ELSE StrCore
             property == IF Len(split) = 2 THEN split[2] ELSE full_name
             comment == PropertiesUrl \o profile \o <<47, 80, 114, 111, 112, 101, 114, 116, 105, 101, 115, 47>> \o property \o <<47>>
             declared == Declaration(name, Head(sorted).index)
         IN  IF Len(parts) # 2 THEN [err |-> "ValueError", lines |-> lines]
             ELSE IF parts[1] # self.prefix THEN [err |-> "AssertionError", lines |-> lines]
             ELSE IF Len(split) = 2 /\ found.err # "none"
             THEN [err |-> found.err, lines |-> lines]
             ELSE IF StartsWith(full_name, <<64>>) \/ full_name = StrLabelType
             THEN LabelLines(self, Tail(sorted), Append(lines, declared))
             ELSE LabelLines(self, Tail(sorted), lines \o <<comment, declared>>)

LabelDefinitions(self) == LabelLines(self, SortedEntries(self), <<>>)

-----------------------------------------------------------------------------
(* gen.py: the main program                                                *)

DATETIME_TYPES ==
    {<<112, 114, 111, 112, 95, 65, 114, 116, 105, 102, 97, 99, 116, 95, 98, 117, 105, 108, 116, 84, 105, 109, 101>>,
     <<112, 114, 111, 112, 95, 65, 114, 116, 105, 102, 97, 99, 116, 95, 114, 101, 108, 101, 97, 115, 101, 84, 105, 109, 101>>,
     <<112, 114, 111, 112, 95, 65, 114, 116, 105, 102, 97, 99, 116, 95, 118, 97, 108, 105, 100, 85, 110, 116, 105, 108, 84, 105, 109, 101>>,
     <<112, 114, 111, 112, 95, 67, 114, 101, 97, 116, 105, 111, 110, 73, 110, 102, 111, 95, 99, 114, 101, 97, 116, 101, 100>>,
     <<112, 114, 111, 112, 95, 82, 101, 108, 97, 116, 105, 111, 110, 115, 104, 105, 112, 95, 101, 110, 100, 84, 105, 109, 101>>,
     <<112, 114, 111, 112, 95, 82, 101, 108, 97, 116, 105, 111, 110, 115, 104, 105, 112, 95, 115, 116, 97, 114, 116, 84, 105, 109, 101>>,
     <<112, 114, 111, 112, 95, 98, 117, 105, 108, 100, 95, 66, 117, 105, 108, 100, 95, 98, 117, 105, 108, 100, 95, 98, 117, 105, 108, 100, 69, 110, 100, 84, 105, 109, 101>>,
     <<112, 114, 111, 112, 95, 98, 117, 105, 108, 100, 95, 66, 117, 105, 108, 100, 95, 98, 117, 105, 108, 100, 95, 98, 117, 105, 108, 100, 83, 116, 97, 114, 116, 84, 105, 109, 101>>,
     <<112, 114, 111, 112, 95, 115, 101, 99, 117, 114, 105, 116, 121, 95, 86, 101, 120, 65, 102, 102, 101, 99, 116, 101, 100, 86, 117, 108, 110, 65, 115, 115, 101, 115, 115, 109, 101, 110, 116, 82, 101, 108, 97, 116, 105, 111, 110, 115, 104, 105, 112, 95, 115, 101, 99, 117, 114, 105, 116, 121, 95, 97, 99, 116, 105, 111, 110, 83, 116, 97, 116, 101, 109, 101, 110, 116, 84, 105, 109, 101>>,
     <<112, 114, 111, 112, 95, 115, 101, 99, 117, 114, 105, 116, 121, 95, 86, 101, 120, 78, 111, 116, 65, 102, 102, 101, 99, 116, 101, 100, 86, 117, 108, 110, 65, 115, 115, 101, 115, 115, 109, 101, 110, 116, 82, 101, 108, 97, 116, 105, 111, 110, 115, 104, 105, 112, 95, 115, 101, 99, 117, 114, 105, 116, 121, 95, 105, 109, 112, 97, 99, 116, 83, 116, 97, 116, 101, 109, 101, 110, 116, 84, 105, 109, 101>>,
     <<112, 114, 111, 112, 95, 115, 101, 99, 117, 114, 105, 116, 121, 95, 86, 117, 108, 110, 65, 115, 115, 101, 115, 115, 109, 101, 110, 116, 82, 101, 108, 97, 116, 105, 111, 110, 115, 104, 105, 112, 95, 115, 101, 99, 117, 114, 105, 116, 121, 95, 109, 111, 100, 105, 102, 105, 101, 100, 84, 105, 109, 101>>,
     <<112, 114, 111, 112, 95, 115, 101, 99, 117, 114, 105, 116, 121, 95, 86, 117, 108, 110, 65, 115, 115, 101, 115, 115, 109, 101, 110, 116, 82, 101, 108, 97, 116, 105, 111, 110, 115, 104, 105, 112, 95, 115, 101, 99, 117, 114, 105, 116, 121, 95, 112, 117, 98, 108, 105, 115, 104, 101, 100, 84, 105, 109, 101>>,
     <<112, 114, 111, 112, 95, 115, 101, 99, 117, 114, 105, 116, 121, 95, 86, 117, 108, 110, 65, 115, 115, 101, 115, 115, 109, 101, 110, 116, 82, 101, 108, 97, 116, 105, 111, 110, 115, 104, 105, 112, 95, 115, 101, 99, 117, 114, 105, 116, 121, 95, 119, 105, 116, 104, 100, 114, 97, 119, 110, 84, 105, 109, 101>>,
     <<112, 114, 111, 112, 95, 115, 101, 99, 117, 114, 105, 116, 121, 95, 86, 117, 108, 110, 101, 114, 97, 98, 105, 108, 105, 116, 121, 95, 115, 101, 99, 117, 114, 105, 116, 121, 95, 109, 111, 100, 105, 102, 105, 101, 100, 84, 105, 109, 101>>,
     <<112, 114, 111, 112, 95, 115, 101, 99, 117, 114, 105, 116, 121, 95, 86, 117, 108, 110, 101, 114, 97, 98, 105, 108, 105, 116, 121, 95, 115, 101, 99, 117, 114, 105, 116, 121, 95, 112, 117, 98, 108, 105, 115, 104, 101, 100, 84, 105, 109, 101>>,
     <<112, 114, 111, 112, 95, 115, 101, 99, 117, 114, 105, 116, 121, 95, 86, 117, 108, 110, 101, 114, 97, 98, 105, 108, 105, 116, 121, 95, 115, 101, 99, 117, 114, 105, 116, 121, 95, 119, 105, 116, 104, 100, 114, 97, 119, 110, 84, 105, 109, 101>>}

QUANTITY_TYPES ==
    {<<112, 114, 111, 112, 95, 97, 105, 95, 69, 110, 101, 114, 103, 121, 67, 111, 110, 115, 117, 109, 112, 116, 105, 111, 110, 68, 101, 115, 99, 114, 105, 112, 116, 105, 111, 110, 95, 97, 105, 95, 101, 110, 101, 114, 103, 121, 81, 117, 97, 110, 116, 105, 116, 121>>,
     <<112, 114, 111, 112, 95, 115, 101, 99, 117, 114, 105, 116, 121, 95, 67, 118, 115, 115, 86, 50, 86, 117, 108, 110, 65, 115, 115, 101, 115, 115, 109, 101, 110, 116, 82, 101, 108, 97, 116, 105, 111, 110, 115, 104, 105, 112, 95, 115, 101, 99, 117, 114, 105, 116, 121, 95, 115, 99, 111, 114, 101>>,
     <<112, 114, 111, 112, 95, 115, 101, 99, 117, 114, 105, 116, 121, 95, 67, 118, 115, 115, 86, 51, 86, 117, 108, 110, 65, 115, 115, 101, 115, 115, 109, 101, 110, 116, 82, 101, 108, 97, 116, 105, 111, 110, 115, 104, 105, 112, 95, 115, 101, 99, 117, 114, 105, 116, 121, 95, 115, 99, 111, 114, 101>>,
     <<112, 114, 111, 112, 95, 115, 101, 99, 117, 114, 105, 116, 121, 95, 67, 118, 115, 115, 86, 52, 86, 117, 108, 110, 65, 115, 115, 101, 115, 115, 109, 101, 110, 116, 82, 101, 108, 97, 116, 105, 111, 110, 115, 104, 105, 112, 95, 115, 101, 99, 117, 114, 105, 116, 121, 95, 115, 99, 111, 114, 101>>,
     <<112, 114, 111, 112, 95, 115, 101, 99, 117, 114, 105, 116, 121, 95, 69, 112, 115, 115, 86, 117, 108, 110, 65, 115, 115, 101, 115, 115, 109, 101, 110, 116, 82, 101, 108, 97, 116, 105, 111, 110, 115, 104, 105, 112, 95, 115, 101, 99, 117, 114, 105, 116, 121, 95, 112, 101, 114, 99, 101, 110, 116, 105, 108, 101>>,
     <<112, 114, 111, 112, 95, 115, 101, 99, 117, 114, 105, 116, 121, 95, 69, 112, 115, 115, 86, 117, 108, 110, 65, 115, 115, 101, 115, 115, 109, 101, 110, 116, 82, 101, 108, 97, 116, 105, 111, 110, 115, 104, 105, 112, 95, 115, 101, 99, 117, 114, 105, 116, 121, 95, 112, 114, 111, 98, 97, 98, 105, 108, 105, 116, 121>>}

DIGESTVALUE_TYPES == {<<112, 114, 111, 112, 95, 72, 97, 115, 104, 95, 104, 97, 115, 104, 86, 97, 108, 117, 101>>}

EXTENSIBLE_TYPES == {<<65, 110, 121, 67, 108, 97, 115, 115>>}

CONTENT_TYPES ==
    {<<112, 114, 111, 112, 95, 65, 110, 110, 111, 116, 97, 116, 105, 111, 110, 95, 99, 111, 110, 116, 101, 110, 116, 84, 121, 112, 101>>,
     <<112, 114, 111, 112, 95, 69, 120, 116, 101, 114, 110, 97, 108, 82, 101, 102, 95, 99, 111, 110, 116, 101, 110, 116, 84, 121, 112, 101>>,
     <<112, 114, 111, 112, 95, 115, 111, 102, 116, 119, 97, 114, 101, 95, 70, 105, 108, 101, 95, 99, 111, 110, 116, 101, 110, 116, 84, 121, 112, 101>>}

SEMVER_TYPES ==
    {<<112, 114, 111, 112, 95, 67, 114, 101, 97, 116, 105, 111, 110, 73, 110, 102, 111, 95, 115, 112, 101, 99, 86, 101, 114, 115, 105, 111, 110>>,
     <<112, 114, 111, 112, 95, 115, 105, 109, 112, 108, 101, 108, 105, 99, 101, 110, 115, 105, 110, 103, 95, 76, 105, 99, 101, 110, 115, 101, 69, 120, 112, 114, 101, 115, 115, 105, 111, 110, 95, 115, 105, 109, 112, 108, 101, 108, 105, 99, 101, 110, 115, 105, 110, 103, 95, 108, 105, 99, 101, 110, 115, 101, 76, 105, 115, 116, 86, 101, 114, 115, 105, 111, 110>>}

StrSHACLClass == <<83, 72, 65, 67, 76, 67, 108, 97, 115, 115>>
StrBlankNode == <<66, 108, 97, 110, 107, 78, 111, 100, 101>>
StrIRI == <<73, 82, 73>>
StrWrapped == <<95, 119, 114, 97, 112, 112, 101, 100>>
StrEntryPoint == <<83, 80, 68, 88, 95, 68, 111, 99, 117, 109, 101, 110, 116>>

\* the right-hand sides the main program prints for the overridden definitions
\* #6.108(bstr) ; Strings in SPDX-JSON, usually hex-encoded
RhsDigestWrapped ==
    <<35, 54, 46, 49, 48, 56, 40, 98, 115, 116, 114, 41, 32, 59, 32, 83, 116, 114, 105, 110, 103, 115, 32, 105, 110, 32, 83, 80, 68, 88, 45, 74, 83, 79, 78, 44, 32, 117, 115, 117, 97, 108, 108, 121, 32, 104, 101, 120, 45, 101, 110, 99, 111, 100, 101, 100>>

\* #6.1(uint) ; ISO8601 UTC with second-precision strings in SPDX-JSON
RhsDateTime ==
    <<35, 54, 46, 49, 40, 117, 105, 110, 116, 41, 32, 59, 32, 73, 83, 79, 56, 54, 48, 49, 32, 85, 84, 67, 32, 119, 105, 116, 104, 32, 115, 101, 99, 111, 110, 100, 45, 112, 114, 101, 99, 105, 115, 105, 111, 110, 32, 115, 116, 114, 105, 110, 103, 115, 32, 105, 110, 32, 83, 80, 68, 88, 45, 74, 83, 79, 78>>

\* tstr .regexp "-?[0-9]+(\\.[0-9]*)?" ; CoSPDX representation of quantit
RhsQuantity ==
    <<116, 115, 116, 114, 32, 46, 114, 101, 103, 101, 120, 112, 32, 34, 45, 63, 91, 48, 45, 57, 93, 43, 40, 92, 92, 46, 91, 48, 45, 57, 93, 42, 41, 63, 34, 32, 59, 32, 67, 111, 83, 80, 68, 88, 32, 114, 101, 112, 114, 101, 115, 101, 110, 116, 97, 116, 105, 111, 110, 32, 111, 102, 32, 113, 117, 97, 110, 116, 105, 116, 105, 101, 115>>

\* tstr .regexp "_:.+" ; CoSPDX representation of blank nodes
RhsBlankNode ==
    <<116, 115, 116, 114, 32, 46, 114, 101, 103, 101, 120, 112, 32, 34, 95, 58, 46, 43, 34, 32, 59, 32, 67, 111, 83, 80, 68, 88, 32, 114, 101, 112, 114, 101, 115, 101, 110, 116, 97, 116, 105, 111, 110, 32, 111, 102, 32, 98, 108, 97, 110, 107, 32, 110, 111, 100, 101, 115>>

\* tstr .regexp "[^/]+/[^/]+" ; CoSPDX representation of content types
RhsContentType ==
    <<116, 115, 116, 114, 32, 46, 114, 101, 103, 101, 120, 112, 32, 34, 91, 94, 47, 93, 43, 47, 91, 94, 47, 93, 43, 34, 32, 59, 32, 67, 111, 83, 80, 68, 88, 32, 114, 101, 112, 114, 101, 115, 101, 110, 116, 97, 116, 105, 111, 110, 32, 111, 102, 32, 99, 111, 110, 116, 101, 110, 116, 32, 116, 121, 112, 101, 115>>

\* tstr .regexp "[^_].*:.+|_[^:].*:.+" ; CoSPDX representation of IRIs
RhsIRI ==
    <<116, 115, 116, 114, 32, 46, 114, 101, 103, 101, 120, 112, 32, 34, 91, 94, 95, 93, 46, 42, 58, 46, 43, 124, 95, 91, 94, 58, 93, 46, 42, 58, 46, 43, 34, 32, 59, 32, 67, 111, 83, 80, 68, 88, 32, 114, 101, 112, 114, 101, 115, 101, 110, 116, 97, 116, 105, 111, 110, 32, 111, 102, 32, 73, 82, 73, 115>>

\* tstr .regexp "(0|[1-9][0-9]*)\.(0|[1-9][0-9]*)\.(0|[1-9][0-9]*)(-((0|[
RhsSemVer ==
    <<116, 115, 116, 114, 32, 46, 114, 101, 103, 101, 120, 112, 32, 34, 40, 48, 124, 91, 49, 45, 57, 93, 91, 48, 45, 57, 93, 42, 41, 92, 46, 40, 48, 124, 91, 49, 45, 57, 93, 91, 48, 45, 57, 93, 42, 41, 92, 46, 40, 48, 124, 91, 49, 45, 57, 93, 91, 48, 45, 57, 93, 42, 41, 40, 45, 40, 40, 48, 124, 91, 49, 45, 57, 93, 91, 48, 45, 57, 93, 42, 124, 91, 48, 45, 57, 93, 42, 91, 97, 45, 122, 65, 45, 90, 45, 93, 91, 48, 45, 57, 97, 45, 122, 65, 45, 90, 45, 93, 42, 41, 40, 92, 46, 40, 48, 124, 91, 49, 45, 57, 93, 91, 48, 45, 57, 93, 42, 124, 91, 48, 45, 57, 93, 42, 91, 97, 45, 122, 65, 45, 90, 45, 93, 91, 48, 45, 57, 97, 45, 122, 65, 45, 90, 45, 93, 42, 41, 41, 42, 41, 41, 63, 40, 92, 43, 40, 91, 48, 45, 57, 97, 45, 122, 65, 45, 90, 45, 93, 43, 40, 92, 46, 91, 48, 45, 57, 97, 45, 122, 65, 45, 90, 45, 93, 43, 41, 42, 41, 41, 63, 34, 32, 59, 32, 67, 111, 83, 80, 68, 88, 32, 114, 101, 112, 114, 101, 115, 101, 110, 116, 97, 116, 105, 111, 110, 32, 111, 102, 32, 118, 101, 114, 115, 105, 111, 110, 115>>

\* a printed production: its name, the text after " = " (or " /= "), and the
\* definition it was printed for
Production(name, rhs, of) == [name |-> name, rhs |-> rhs, of |-> of]

\* "$name /= value" for every value
Socket(name, values, of) == [i \in 1..Len(values) |-> Production(<<36>> \o name, values[i], of)]

\* klass.cddl(schema), where klass is what find_type returned
cddl(klass_, schema, st) ==
    IF klass_ = "None" THEN Raised("AttributeError", st)
    ELSE Cddl(klass_, schema, FALSE, st)

\* the body of the loop over a profile's definitions, for a definition whose
\* class was found, translated being what type_class.cddl(type_schema) gives
\* where the branch taken calls it: the productions printed, the exception
\* raised, the interners
EmitMapped(type_name, translated, st) ==
    LET Fixed(rhs) ==
            [err |-> "none", st |-> st, printed |-> <<Production(type_name, rhs, type_name)>>]
    IN  IF type_name \in DIGESTVALUE_TYPES
        THEN [err |-> "none", st |-> st,
              printed |-> <<Production(type_name \o StrWrapped, RhsDigestWrapped, type_name),
                            Production(type_name, <<126>> \o type_name \o StrWrapped, type_name)>>]
        ELSE IF type_name \in DATETIME_TYPES THEN Fixed(RhsDateTime)
        ELSE IF type_name \in EXTENSIBLE_TYPES
        THEN LET first == Production(type_name,
                              <<36>> \o type_name
                                \o <<32, 59, 32, 83, 111, 99, 107, 101, 116, 32, 102, 111, 114, 32, 101, 118, 101, 110, 116, 117, 97, 108, 32, 112, 111, 115, 116, 45, 83, 80, 68, 88, 32, 51, 46, 48, 46, 49, 32, 101, 120, 116, 101, 110, 115, 105, 111, 110, 115>>,
                              type_name)
             IN  IF translated.err # "none"
                 THEN [err |-> translated.err, st |-> translated.st, printed |-> <<first>>]
                 ELSE IF translated.none
                 THEN [err |-> "AttributeError", st |-> translated.st, printed |-> <<first>>]
                 ELSE [err |-> "none", st |-> translated.st,
                       printed |-> <<first>>
                           \o Socket(type_name, Split(translated.out, SepAlt), type_name)]
        ELSE IF type_name = StrSHACLClass
        THEN LET first == Production(type_name,
                              <<123, 32, 108, 97, 98, 101, 108, 46, 116, 121, 112, 101, 32, 61, 62, 32, 36, 108, 97, 98, 101, 108, 46, 116, 121, 112, 101, 32, 125, 32, 59, 32, 83, 111, 99, 107, 101, 116, 32, 102, 111, 114, 32, 101, 118, 101, 110, 116, 117, 97, 108, 32, 112, 111, 115, 116, 45, 83, 80, 68, 88, 32, 51, 46, 48, 46, 49, 32, 101, 120, 116, 101, 110, 115, 105, 111, 110, 115>>,
                              type_name)
                 arrow == Split(translated.out, SepArrow)
             IN  IF translated.err # "none"
                 THEN [err |-> translated.err, st |-> translated.st, printed |-> <<first>>]
                 ELSE IF translated.none
                 THEN [err |-> "AttributeError", st |-> translated.st, printed |-> <<first>>]
                 ELSE IF Len(arrow) < 2
                 THEN [err |-> "IndexError", st |-> translated.st, printed |-> <<first>>]
                 ELSE [err |-> "none", st |-> translated.st,
                       printed |-> <<first>>
                           \o Socket(<<108, 97, 98, 101, 108, 46, 116, 121, 112, 101>>,
                                     Split(Split(arrow[2], <<125>>)[1], SepAlt), type_name)]
        ELSE IF type_name \in QUANTITY_TYPES THEN Fixed(RhsQuantity)
        ELSE IF type_name = StrBlankNode THEN Fixed(RhsBlankNode)
        ELSE IF type_name \in CONTENT_TYPES THEN Fixed(RhsContentType)
        ELSE IF type_name = StrIRI THEN Fixed(RhsIRI)
        ELSE IF type_name \in SEMVER_TYPES THEN Fixed(RhsSemVer)
        ELSE IF translated.err # "none"
        THEN [err |-> translated.err, st |-> translated.st, printed |-> <<>>]
        ELSE [err |-> "none", st |-> translated.st,
              printed |-> <<Production(type_name, Format(translated), type_name)>>]

\* the definitions of grouping.profiles in the order the two loops visit them
RECURSIVE Visited(_, _)
Visited(profiles, order) ==
    IF order = <<>> THEN <<>> ELSE profiles[Head(order)] \o Visited(profiles, Tail(order))

\* totalrefs over the unmapped definitions: the first exception raised, if any
RECURSIVE TotalRefsOfAll(_, _)
TotalRefsOfAll(unmapped, defs) ==
    IF unmapped = <<>> THEN "none"
    ELSE LET t == totalrefs(Head(unmapped).name, defs)
         IN  IF t.err # "none" THEN t.err ELSE TotalRefsOfAll(Tail(unmapped), defs)

-----------------------------------------------------------------------------
(* Specifications.                                                         *)

(* SpecEmit: one run of the main program of gen.py over a schema whose     *)
(* "$defs" holds at most MaxDefs definitions.                              *)

\* the names of the definitions: one of the Core profile, one of the AI profile
\* and three the main program overrides
EmitNames ==
    {<<65>>, <<97, 105, 95, 66>>, <<73, 82, 73>>, <<65, 110, 121, 67, 108, 97, 115, 115>>, <<112, 114, 111, 112, 95, 72, 97, 115, 104, 95, 104, 97, 115, 104, 86, 97, 108, 117, 101>>}

\* the schemas of the definitions:
\*   1  a string: {"type": "string"}
\*   2  a node of no class: {"type": "null"}
\*   3  an array of it: {"type": "array", "items": {"type": "null"}}
\*   4  a union with it: {"anyOf": [{"$ref": "#/$defs/A"}, {"type": "null"}]}
\*   5  an intersection with it: {"allOf": [{"$ref": "#/$defs/A"}, {"type": "null"}]}
\*   6  a conditional with it: {"if": {"$ref": "#/$defs/A"}, "then": {"type": "null"}, "else": {}}
\*   7  an object with it as a property: {"type": "object", "properties": {"name": {"type": "null"}}}
\*   8  an object with a string property: {"type": "object", "properties": {"name": {"type": "string"}}, "required": ["name"]}
EmitSchemas ==
    <<("type" :> "string"),
      ("type" :> "null"),
      ("type" :> "array" @@ "items" :> ("type" :> "null")),
      ("anyOf" :> <<("$ref" :> <<35, 47, 36, 100, 101, 102, 115, 47, 65>>), ("type" :> "null")>>),
      ("allOf" :> <<("$ref" :> <<35, 47, 36, 100, 101, 102, 115, 47, 65>>), ("type" :> "null")>>),
      ("if" :> ("$ref" :> <<35, 47, 36, 100, 101, 102, 115, 47, 65>>) @@ "then" :> ("type" :> "null") @@ "else" :> <<>>),
      ("type" :> "object" @@ "properties" :> <<[name |-> <<110, 97, 109, 101>>, schema |-> ("type" :> "null")]>>),
      ("type" :> "object" @@ "properties" :> <<[name |-> <<110, 97, 109, 101>>, schema |-> ("type" :> "string")]>> @@ "required" :> <<<<110, 97, 109, 101>>>>)>>

Definitions ==
    {[name |-> n, schema |-> EmitSchemas[i]] : n \in EmitNames, i \in 1..Len(EmitSchemas)}

\* the items of schema["$defs"]: a dict holds a name once
DefTables ==
    {t \in UNION {[1..n -> Definitions] : n \in 0..MaxDefs} :
        \A i, j \in 1..Len(t) : t[i].name = t[j].name => i = j}

\* the schema without its "$" keys (line 574):
\*   {"type": "object", "required": ["@graph"],
\*    "properties": {"@graph": {"type": "array", "items": {"$ref": "#/$defs/A"}}}}
TopLevel ==
    ("type" :> "object"
     @@ "properties" :>
            <<[name |-> <<64, 103, 114, 97, 112, 104>>,
               schema |-> ("type" :> "array"
                           @@ "items" :> ("$ref" :> <<35, 47, 36, 100, 101, 102, 115, 47, 65>>))]>>
     @@ "required" :> <<<<64, 103, 114, 97, 112, 104>>>>)

NotStarted ==
    [pc |-> "start", todo |-> <<>>, unmapped |-> <<>>, printed |-> <<>>,
     labels |-> <<>>, consts |-> <<>>, report |-> <<>>, outcome |-> "running"]

EmitIdle == document = [toplevel |-> <<>>, defs |-> <<>>] /\ main = NotStarted

\* no call made yet of the functions the specifications below call on their own
NotDropped == [parts |-> <<>>, seq |-> <<>>, called |-> FALSE, err |-> "none", out |-> <<>>]
DropIdle == dropCall = NotDropped
NotTranslated == [called |-> FALSE, err |-> "none", none |-> FALSE, out |-> <<>>]
TranslateIdle == cddlCall = NotTranslated
NotRendered == [called |-> FALSE, err |-> "none", lines |-> <<>>]
RenderIdle == labelsCall = NotRendered
NotGrouped == [called |-> FALSE, profiles |-> EmptyProfiles]
GroupIdle == grouping = NotGrouped
NotWalking ==
    [pc |-> "idle", name |-> <<>>, locals |-> TotalRefsLocals(<<>>), processed |-> <<>>]
WalkIdle == walk = NotWalking
NotMapped ==
    [called |-> FALSE, fn |-> "none", key |-> <<>>, arg |-> NoneValue, after |-> NoneValue,
     err |-> "none", out |-> NoneValue]
TranscodeIdle == mappedCall = NotMapped
FnIdle == DropIdle /\ TranslateIdle /\ RenderIdle /\ GroupIdle /\ WalkIdle /\ TranscodeIdle

InternInit ==
    /\ interner = ModuleInterners
    /\ hist = [o \in Objects |-> EmptyMap]
    /\ ret = NoCall
    /\ ngets = 0

\* the state after the two modules are imported
Init == InternInit /\ ConvInit /\ ClassInit /\ EmitIdle /\ FnIdle

(* SpecInterner: any sequence of get() calls, with any strings, on one of  *)
(* the two interner objects (the objects share no state).                  *)
InternerGet ==
    /\ ngets < MaxGets
    /\ \E o \in Objects, s \in Strings :
        /\ ret.obj \in {"none", o}
        /\ Get(o, s)
    /\ UNCHANGED <<convVars, classVars, emitVars, fnVars>>

InternerNext == InternerGet

SpecInterner == Init /\ [][InternerNext]_vars

(* SpecRanges: both interners, fed distinct one-character strings; the    *)
(* n-th new string of an interner is the one character FreshChar(n) (the   *)
(* codes get() assigns do not depend on which characters these are).      *)
FreshChar(n) == 256 + n

GetFreshLabel ==
    LET n == Cardinality(DOMAIN hist["LABELS"])
    IN  n < MaxLabels /\ Get("LABELS", <<FreshChar(n)>>) /\ UNCHANGED <<convVars, classVars, emitVars, fnVars>>

GetFreshConst ==
    LET n == Cardinality(DOMAIN hist["CONSTS"])
    IN  n < MaxConsts /\ Get("CONSTS", <<FreshChar(n)>>) /\ UNCHANGED <<convVars, classVars, emitVars, fnVars>>

RangesNext == GetFreshLabel \/ GetFreshConst

SpecRanges == Init /\ [][RangesNext]_vars

(* SpecConv: any sequence of Schema constructions in one process.         *)
Construct == \E text \in Texts : NewSchema(text) /\ UNCHANGED <<internVars, classVars, emitVars, fnVars>>

ConvNext == Construct

SpecConv == Init /\ [][ConvNext]_vars

(* SpecClassify: find_type applied to one node.                            *)
InitClassify ==
    /\ InternInit /\ ConvInit /\ EmitIdle /\ FnIdle
    /\ node \in ClassifyNodes /\ klass = "pending"

Classify ==
    /\ klass = "pending"
    /\ klass' = find_type(node)
    /\ UNCHANGED <<node, internVars, convVars, emitVars, fnVars>>

ClassifyNext == Classify

SpecClassify == InitClassify /\ [][ClassifyNext]_vars

InitEmit ==
    /\ InternInit /\ ConvInit /\ ClassInit /\ FnIdle
    /\ document \in [toplevel : {TopLevel}, defs : DefTables]
    /\ main = NotStarted

\* an uncaught exception ends the run
Abort(err) == [main EXCEPT !.pc = "done", !.outcome = err]

\* lines 573-582: the entry point is printed and the definitions are grouped
EntryPointDeclared(r) ==
    /\ interner' = r.st
    /\ main' =
        IF r.err # "none" THEN Abort(r.err)
        ELSE [main EXCEPT
                !.pc = "loop",
                !.printed = <<Production(StrEntryPoint, Format(r), StrEntryPoint)>>,
                !.todo = Visited(Grouping(document.defs), ProfileOrder)]

EmitEntryPoint ==
    /\ main.pc = "start"
    /\ EntryPointDeclared(cddl(find_type(document.toplevel), document.toplevel, interner))
    /\ UNCHANGED <<hist, ret, ngets, convVars, classVars, document, fnVars>>

\* lines 589-655: one iteration of the loop over the definitions
DefinitionMapped(r) ==
    /\ interner' = r.st
    /\ main' =
        IF r.err # "none"
        THEN [main EXCEPT !.pc = "done", !.outcome = r.err, !.printed = @ \o r.printed]
        ELSE [main EXCEPT !.todo = Tail(@), !.printed = @ \o r.printed]

DefinitionUnmapped ==
    /\ main' = [main EXCEPT !.todo = Tail(@), !.unmapped = Append(@, Head(main.todo))]
    /\ UNCHANGED interner

EmitDefinition ==
    /\ main.pc = "loop"
    /\ main.todo # <<>>
    /\ LET type_name == Head(main.todo).name
           type_schema == Head(main.todo).schema
           type_class == find_type(type_schema)
       IN  IF type_class = "None" THEN DefinitionUnmapped
           ELSE DefinitionMapped(
                    EmitMapped(type_name, cddl(type_class, type_schema, interner), interner))
    /\ UNCHANGED <<hist, ret, ngets, convVars, classVars, document, fnVars>>

\* sorted(..., reverse=True, key=lambda x: x[2]): by decreasing count, equal
\* counts in their order in the list
RECURSIVE SortedByRefs(_)
SortedByRefs(entries) ==
    IF entries = <<>> THEN <<>>
    ELSE LET rest == SortedByRefs(Tail(entries))
             before == SelectSeq(rest, LAMBDA e : e.totalrefs > Head(entries).totalrefs)
             after == SelectSeq(rest, LAMBDA e : e.totalrefs <= Head(entries).totalrefs)
         IN  before \o <<Head(entries)>> \o after

\* lines 666-673: unmapped_and_totalrefs
unmapped_and_totalrefs(unmapped, defs) ==
    SortedByRefs([i \in 1..Len(unmapped) |->
                    [name |-> unmapped[i].name, schema |-> unmapped[i].schema,
                     totalrefs |-> totalrefs(unmapped[i].name, defs).count]])

\* lines 658-674: the fallback production, the two tables, the final assertion
Finish ==
    /\ main.pc = "loop"
    /\ main.todo = <<>>
    /\ \E printed \in {Append(main.printed,
                             Production(<<65, 110, 121, 79, 98, 106, 101, 99, 116>>, <<123, 32, 42, 32, 97, 110, 121, 32, 61, 62, 32, 97, 110, 121, 32, 125>>, <<65, 110, 121, 79, 98, 106, 101, 99, 116>>))},
           labels \in {LabelDefinitions(interner["LABELS"])},
           consts \in {ConstDefinitions(interner["CONSTS"])},
           walked \in {TotalRefsOfAll(main.unmapped, document.defs)},
           report \in {unmapped_and_totalrefs(main.unmapped, document.defs)} :
           main' =
            IF labels.err # "none"
            THEN [main EXCEPT !.pc = "done", !.outcome = labels.err, !.printed = printed]
            ELSE IF walked # "none"
            THEN [main EXCEPT !.pc = "done", !.outcome = walked, !.printed = printed,
                              !.labels = labels.lines, !.consts = consts]
            ELSE [main EXCEPT !.pc = "done", !.printed = printed,
                              !.labels = labels.lines, !.consts = consts,
                              !.report = report,
                              !.outcome = IF report = <<>> THEN "AllMapped"
                                          ELSE "UnmappedReported"]
    /\ UNCHANGED <<interner, hist, ret, ngets, convVars, classVars, document, fnVars>>

EmitNext == EmitEntryPoint \/ EmitDefinition \/ Finish

SpecEmit == InitEmit /\ [][EmitNext]_vars

(* SpecDrop: drop_weaker_constraints applied to the ", "-joined list of at    *)
(* most MaxParts fragments, as IfThenElseType.cddl builds it from what the  *)
(* translation of the branches returns.                                     *)

\* the fragments: for the fields a and b, "?f => any", "f => any",
\* "?f => tstr", "f => tstr"; the unwrapped reference "~A"; and a field whose
\* value is the translation of an object, "a => { c => tstr }"
DropFields == {<<97>>, <<98>>}

FieldFragments(f) ==
    {<<63>> \o f \o SepArrow \o StrAny, f \o SepArrow \o StrAny,
     <<63>> \o f \o SepArrow \o <<116, 115, 116, 114>>, f \o SepArrow \o <<116, 115, 116, 114>>}

Fragments ==
    UNION {FieldFragments(f) : f \in DropFields}
        \cup {<<126, 65>>, <<97, 32, 61, 62, 32, 123, 32, 99, 32, 61, 62, 32, 116, 115, 116, 114, 32, 125>>}

FragmentLists == UNION {[1..n -> Fragments] : n \in 1..MaxParts}

InitDrop ==
    /\ InternInit /\ ConvInit /\ ClassInit /\ EmitIdle
    /\ TranslateIdle /\ RenderIdle /\ GroupIdle /\ WalkIdle /\ TranscodeIdle
    /\ \E parts \in FragmentLists :
        dropCall = [NotDropped EXCEPT !.parts = parts, !.seq = Join(parts, SepComma)]

DropCalled(r) == dropCall' = [dropCall EXCEPT !.called = TRUE, !.err = r.err, !.out = r.out]

Drop ==
    /\ ~dropCall.called
    /\ DropCalled(drop_weaker_constraints(dropCall.seq))
    /\ UNCHANGED <<internVars, convVars, classVars, emitVars,
                   cddlCall, labelsCall, grouping, walk, mappedCall>>

DropNext == Drop

SpecDrop == InitDrop /\ [][DropNext]_vars

(* SpecDropTwice: drop_weaker_constraints, then drop_weaker_constraints on   *)
(* what a call returned.                                                    *)

DropAgain ==
    /\ dropCall.called /\ dropCall.err = "none"
    /\ \E r \in {drop_weaker_constraints(dropCall.out)} :
        dropCall' = [parts |-> Split(dropCall.out, SepComma), seq |-> dropCall.out,
                     called |-> TRUE, err |-> r.err, out |-> r.out]
    /\ UNCHANGED <<internVars, convVars, classVars, emitVars,
                   cddlCall, labelsCall, grouping, walk, mappedCall>>

DropTwiceNext == Drop \/ DropAgain

SpecDropTwice == InitDrop /\ [][DropTwiceNext]_vars

(* SpecTranslate: find_type(node).cddl(node) for one node, with LABELS and   *)
(* CONSTS as they are after import.                                         *)

\* number and integer nodes: "minimum" absent or from -1 to MaxMinimum,
\* "maximum" absent or MaxMinimum
NumberNodes ==
    {[k \in K |-> IF k = "type" THEN t ELSE IF k = "minimum" THEN m ELSE MaxMinimum] :
        K \in {D \in SUBSET {"type", "minimum", "maximum"} : "type" \in D},
        t \in {"number", "integer"}, m \in (0 - 1)..MaxMinimum}

\* object nodes with "properties": up to MaxProps properties of distinct names,
\* each a string, a reference, an integer without "minimum" or a number of
\* negative "minimum"; "required" absent or some of the names;
\* "unevaluatedProperties" absent or false
PropNames == <<<<97>>, <<98, 58, 99>>, <<98, 95, 99>>>>

PropSchemas ==
    {[type |-> "string"], ("$ref" :> <<35, 47, 36, 100, 101, 102, 115, 47, 65>>), [type |-> "integer"],
     [type |-> "number", minimum |-> 0 - 1]}

Properties ==
    {ps \in UNION {[1..n -> [name : {PropNames[i] : i \in 1..Len(PropNames)},
                             schema : PropSchemas]] : n \in 0..MaxProps} :
        \A i, j \in 1..Len(ps) : ps[i].name = ps[j].name => i = j}

RequiredLists ==
    {SelectSeq(PropNames, LAMBDA n : n \in R) :
        R \in SUBSET {PropNames[i] : i \in 1..Len(PropNames)}}

ObjectNodes ==
    {[k \in K |-> IF k = "type" THEN "object"
                  ELSE IF k = "properties" THEN ps
                  ELSE IF k = "required" THEN r
                  ELSE FALSE] :
        K \in {D \in SUBSET {"type", "properties", "required", "unevaluatedProperties"} :
                {"type", "properties"} \subseteq D},
        ps \in Properties, r \in RequiredLists}

TranslateNodes == NumberNodes \cup ObjectNodes

InitTranslate ==
    /\ InternInit /\ ConvInit /\ EmitIdle
    /\ DropIdle /\ RenderIdle /\ GroupIdle /\ WalkIdle /\ TranscodeIdle
    /\ node \in TranslateNodes
    /\ klass = "pending"
    /\ cddlCall = NotTranslated

Translated(r) ==
    /\ interner' = r.st
    /\ cddlCall' = [called |-> TRUE, err |-> r.err, none |-> r.none, out |-> r.out]

Translate ==
    /\ ~cddlCall.called
    /\ klass' = find_type(node)
    /\ Translated(cddl(find_type(node), node, interner))
    /\ UNCHANGED <<node, hist, ret, ngets, convVars, emitVars,
                   dropCall, labelsCall, grouping, walk, mappedCall>>

TranslateNext == Translate

SpecTranslate == InitTranslate /\ [][TranslateNext]_vars

(* SpecRender: up to MaxFields field names are interned as labels, then     *)
(* LABELS.definitions(grouping) is called.                                  *)

\* the field names: without "_", with a profile key before the first "_",
\* with another text before it, and the two names that get no comment
FieldNames == {<<97>>, <<97, 105, 95, 120>>, <<115, 111, 102, 116, 119, 97, 114, 101, 95, 121>>, <<98, 95, 99>>, <<64, 105, 100>>, <<116, 121, 112, 101>>}

InternField ==
    /\ ~labelsCall.called
    /\ ngets < MaxFields
    /\ \E name \in FieldNames : Get("LABELS", name)
    /\ UNCHANGED <<convVars, classVars, emitVars, fnVars>>

Rendered(r) == labelsCall' = [called |-> TRUE, err |-> r.err, lines |-> r.lines]

Render ==
    /\ ~labelsCall.called
    /\ Rendered(LabelDefinitions(interner["LABELS"]))
    /\ UNCHANGED <<internVars, convVars, classVars, emitVars,
                   dropCall, cddlCall, grouping, walk, mappedCall>>

RenderNext == InternField \/ Render

SpecRender == Init /\ [][RenderNext]_vars

(* SpecGroup: Grouping(schema["$defs"]) for a table of at most MaxDefs       *)
(* definitions.                                                             *)

\* names of the Core profile (one of them a profile name in upper case), names
\* starting with a profile key or with "prop_" and a profile key
GroupNames ==
    {<<65>>, <<65, 73, 95, 120>>, <<97, 105, 95, 66>>, <<112, 114, 111, 112, 95, 97, 105, 95, 120>>, <<115, 111, 102, 116, 119, 97, 114, 101, 95, 70>>,
     <<115, 105, 109, 112, 108, 101, 108, 105, 99, 101, 110, 115, 105, 110, 103, 95, 76>>, <<108, 105, 99, 101, 110, 115, 105, 110, 103, 95, 76>>}

GroupTables ==
    {t \in UNION {[1..n -> [name : GroupNames,
                            schema : {[type |-> "string"], [type |-> "boolean"]}]] :
                        n \in 0..MaxDefs} :
        \A i, j \in 1..Len(t) : t[i].name = t[j].name => i = j}

InitGroup ==
    /\ InternInit /\ ConvInit /\ ClassInit
    /\ DropIdle /\ TranslateIdle /\ RenderIdle /\ GroupIdle /\ WalkIdle /\ TranscodeIdle
    /\ document \in [toplevel : {TopLevel}, defs : GroupTables]
    /\ main = NotStarted

Group ==
    /\ ~grouping.called
    /\ grouping' = [called |-> TRUE, profiles |-> Grouping(document.defs)]
    /\ UNCHANGED <<internVars, convVars, classVars, emitVars,
                   dropCall, cddlCall, labelsCall, walk, mappedCall>>

GroupNext == Group

SpecGroup == InitGroup /\ [][GroupNext]_vars

(* SpecWalk: totalrefs(name, defs) followed iteration by iteration, over a   *)
(* table of at most MaxDefs definitions; unresolved.pop() gives any member  *)
(* of the set.                                                              *)

WalkNames == {<<65>>, <<66>>, <<67>>}

\* the schemas of the definitions, holding
\*   no reference
\*   a reference to A
\*   a reference to B
\*   two references to A
\*   references to B and C
\*   a reference to C in a property
\*   a reference to D, which no table defines
WalkSchemas ==
    <<("type" :> "string"),
      ("$ref" :> <<35, 47, 36, 100, 101, 102, 115, 47, 65>>),
      ("$ref" :> <<35, 47, 36, 100, 101, 102, 115, 47, 66>>),
      ("anyOf" :> <<("$ref" :> <<35, 47, 36, 100, 101, 102, 115, 47, 65>>), ("$ref" :> <<35, 47, 36, 100, 101, 102, 115, 47, 65>>)>>),
      ("anyOf" :> <<("$ref" :> <<35, 47, 36, 100, 101, 102, 115, 47, 66>>), ("$ref" :> <<35, 47, 36, 100, 101, 102, 115, 47, 67>>)>>),
      ("type" :> "object" @@ "properties" :> <<[name |-> <<120>>, schema |-> ("$ref" :> <<35, 47, 36, 100, 101, 102, 115, 47, 67>>)]>>),
      ("$ref" :> <<35, 47, 36, 100, 101, 102, 115, 47, 68>>)>>

WalkTables ==
    {t \in UNION {[1..n -> [name : WalkNames,
                            schema : {WalkSchemas[i] : i \in 1..Len(WalkSchemas)}]] :
                        n \in 1..MaxDefs} :
        \A i, j \in 1..Len(t) : t[i].name = t[j].name => i = j}

\* lines 37-39: the call is entered with the name of a definition of the table
InitWalk ==
    /\ InternInit /\ ConvInit /\ ClassInit
    /\ DropIdle /\ TranslateIdle /\ RenderIdle /\ GroupIdle /\ TranscodeIdle
    /\ document \in [toplevel : {TopLevel}, defs : WalkTables]
    /\ main = NotStarted
    /\ \E name \in DefNames(document.defs) :
        walk = [pc |-> "loop", name |-> name, locals |-> TotalRefsLocals(name),
                processed |-> <<>>]

WalkOthers ==
    UNCHANGED <<internVars, convVars, classVars, emitVars,
                dropCall, cddlCall, labelsCall, grouping, mappedCall>>

\* lines 40-49: one iteration of the loop
WalkIteration ==
    /\ walk.pc = "loop"
    /\ walk.locals.unresolved # {}
    /\ Len(walk.processed) < MaxIterations
    /\ \E node_name \in walk.locals.unresolved :
        \E after \in {TotalRefsIteration(walk.locals, node_name, document.defs)} :
            walk' = [walk EXCEPT !.locals = after,
                                 !.processed = Append(@, node_name),
                                 !.pc = IF after.err # "none" THEN "done" ELSE "loop"]
    /\ WalkOthers

\* line 50: the count is returned
WalkReturn ==
    /\ walk.pc = "loop"
    /\ walk.locals.unresolved = {}
    /\ walk' = [walk EXCEPT !.pc = "done"]
    /\ WalkOthers

WalkNext == WalkIteration \/ WalkReturn

SpecWalk == InitWalk /\ [][WalkNext]_vars

\* the loop is the only thing the call does: it keeps running
SpecWalkLive == SpecWalk /\ WF_vars(WalkNext)

(* SpecTranscode: a Schema is constructed from a grammar, then either       *)
(* simple_value_convert is called on one field or mapped on one document.   *)

LoadSchema ==
    /\ ~loaded.called
    /\ \E text \in TranscodeTexts : NewSchema(text)
    /\ UNCHANGED <<internVars, classVars, emitVars, fnVars>>

TranscodeOthers ==
    UNCHANGED <<internVars, convVars, classVars, emitVars,
                dropCall, cddlCall, labelsCall, grouping, walk>>

ConvertKeys == {StrHashValue, StrCreated, <<101, 110, 100, 84, 105, 109, 101>>, <<97>>}

ConvertValues ==
    {StrValue(<<97>>), StrValue(<<98>>), StrValue(StrHex), StrValue(StrDate), IntValue(7),
     ListValue(<<StrValue(<<97>>)>>), DictValue(<<>>)}

\* lines 38-55: one call, on the tables the class holds (also those that a
\* construction left behind when its assertion failed)
Convert ==
    /\ loaded.called /\ loaded.raised # "ValueError"
    /\ ~mappedCall.called
    /\ \E key \in ConvertKeys, value \in ConvertValues :
        \E r \in {simple_value_convert(key, value, Schema)} :
            mappedCall' = [called |-> TRUE, fn |-> "simple_value_convert", key |-> key,
                           arg |-> value, after |-> value, err |-> r.err, out |-> r.out]
    /\ TranscodeOthers

\* {"a": "a"}
ObjectA == DictValue(<<[key |-> StrValue(<<97>>), val |-> StrValue(<<97>>)]>>)

\* the elements of the arrays: a string, a number, an object, an array of a
\* string, an array of an object
Elements ==
    {StrValue(<<97>>), IntValue(7), ObjectA, ListValue(<<StrValue(<<97>>)>>),
     ListValue(<<ObjectA>>)}

Arrays == {ListValue(l) : l \in UNION {[1..n -> Elements] : n \in 0..MaxItems}}

FieldValues ==
    {StrValue(<<97>>), StrValue(StrHex), IntValue(7), DictValue(<<>>), ObjectA,
     DictValue(<<[key |-> StrValue(<<98>>), val |-> ListValue(<<StrValue(<<97>>), ObjectA>>)]>>)}
        \cup Arrays

\* the documents: no field, one field, or one field followed by a field "c"
Documents ==
    LET first == [key : {StrValue(<<97>>), StrValue(<<98>>), StrValue(StrHashValue)},
                  val : FieldValues]
        second == [key : {StrValue(<<99>>)}, val : {StrValue(<<97>>), ObjectA}]
    IN  {DictValue(<<>>)} \cup {DictValue(<<f>>) : f \in first}
            \cup {DictValue(<<f, g>>) : f \in first, g \in second}

\* lines 73-76 of convert: mapped(document, schema) once the Schema is
\* constructed; lines 58-70 assign to map and val only, so that the argument
\* is after the call what it was before
Transcode ==
    /\ loaded.called /\ loaded.raised = "none"
    /\ ~mappedCall.called
    /\ \E doc \in Documents :
        \E r \in {mapped(doc, Schema)} :
            mappedCall' = [called |-> TRUE, fn |-> "mapped", key |-> <<>>,
                           arg |-> doc, after |-> doc, err |-> r.err, out |-> r.out]
    /\ TranscodeOthers

TranscodeNext == LoadSchema \/ Convert \/ Transcode

SpecTranscode == Init /\ [][TranscodeNext]_vars

(* SpecShapes: find_type(node).cddl(node) for an object node without        *)
(* properties, and for an allOf node of at most MaxMembers members.         *)

\* object nodes that declare no property: "properties" absent or empty,
\* "unevaluatedProperties" absent, true or false
BareObjects ==
    <<("type" :> "object"),
      ("type" :> "object" @@ "unevaluatedProperties" :> TRUE),
      ("type" :> "object" @@ "properties" :> <<>>),
      ("type" :> "object" @@ "properties" :> <<>> @@ "unevaluatedProperties" :> TRUE),
      ("type" :> "object" @@ "unevaluatedProperties" :> FALSE),
      ("type" :> "object" @@ "properties" :> <<>> @@ "unevaluatedProperties" :> FALSE)>>

\* one node of each of the fourteen classes, in the order of find_type's list
\* as far as StringType .. IfThenElseObjectType go, and an object with an
\* empty "properties"
Members ==
    <<("type" :> "string"),
      ("type" :> "number" @@ "minimum" :> 0),
      ("type" :> "integer" @@ "minimum" :> 0),
      ("anyOf" :> <<("$ref" :> <<35, 47, 36, 100, 101, 102, 115, 47, 65>>)>>),
      ("enum" :> <<[str |-> <<97>>]>>),
      ("type" :> "boolean"),
      ("$ref" :> <<35, 47, 36, 100, 101, 102, 115, 47, 65>>),
      ("const" :> <<97>>),
      ("type" :> "object" @@ "properties" :> <<[name |-> <<97>>, schema |-> ("type" :> "string")]>>),
      ("allOf" :> <<("$ref" :> <<35, 47, 36, 100, 101, 102, 115, 47, 65>>)>>),
      ("type" :> "array" @@ "items" :> ("type" :> "string")),
      ("if" :> ("$ref" :> <<35, 47, 36, 100, 101, 102, 115, 47, 65>>) @@ "then" :> ("$ref" :> <<35, 47, 36, 100, 101, 102, 115, 47, 65>>) @@ "else" :> <<>>),
      ("not" :> ("const" :> <<97>>)),
      ("type" :> "object" @@ "if" :> ("$ref" :> <<35, 47, 36, 100, 101, 102, 115, 47, 65>>) @@ "then" :> ("$ref" :> <<35, 47, 36, 100, 101, 102, 115, 47, 65>>) @@ "else" :> ("$ref" :> <<35, 47, 36, 100, 101, 102, 115, 47, 65>>)),
      ("type" :> "object" @@ "properties" :> <<>>)>>

AllOfNode(ms) == ("allOf" :> [i \in 1..Len(ms) |-> Members[ms[i]]])

InitShapes ==
    /\ InternInit /\ ConvInit /\ EmitIdle
    /\ DropIdle /\ RenderIdle /\ GroupIdle /\ WalkIdle /\ TranscodeIdle
    /\ \/ \E i \in 1..Len(BareObjects) : node = BareObjects[i]
       \/ \E n \in 1..MaxMembers : \E ms \in [1..n -> 1..Len(Members)] : node = AllOfNode(ms)
    /\ klass = "pending"
    /\ cddlCall = NotTranslated

ShapesNext == Translate

SpecShapes == InitShapes /\ [][ShapesNext]_vars

(* SpecRoundTrip: the compiler interns field names as labels and constant  *)
(* or enumerated strings as constants, main prints the two tables, a        *)
(* Schema is constructed from the text printed, and mapped is called on a   *)
(* document whose one field has an interned name and an interned string.    *)

\* "a", "ai_x", "ai:x", "b:c", "@id"
RoundTripNames == {<<97>>, <<97, 105, 95, 120>>, <<97, 105, 58, 120>>, <<98, 58, 99>>, <<64, 105, 100>>}

\* "a", "a/b", "a:b"
RoundTripStrings == {<<97>>, <<97, 47, 98>>, <<97, 58, 98>>}

\* ObjectType.cddl: LABELS.get(prop_name)
InternName ==
    /\ ~labelsCall.called
    /\ ngets < MaxGets
    /\ \E name \in RoundTripNames : Get("LABELS", name)
    /\ UNCHANGED <<convVars, classVars, emitVars, fnVars>>

\* ConstType.cddl and EnumType.cddl: CONSTS.get(...)
InternString ==
    /\ ~labelsCall.called
    /\ ngets < MaxGets
    /\ \E value \in RoundTripStrings : Get("CONSTS", value)
    /\ UNCHANGED <<convVars, classVars, emitVars, fnVars>>

\* the text main prints when LABELS.definitions raises nothing: the label
\* table, then the table of constants; the lines between them and after them
\* start with none of "label.", "enum.", "const." and Schema.__init__ skips them
Emitted == labelsCall.lines \o ConstDefinitions(interner["CONSTS"])

\* Schema(schema_path) on the text printed
LoadEmitted ==
    /\ labelsCall.called /\ labelsCall.err = "none"
    /\ ~loaded.called
    /\ NewSchema(Emitted)
    /\ UNCHANGED <<internVars, classVars, emitVars, fnVars>>

\* mapped({name: value}, schema) for an interned name and an interned string
TranscodeInterned ==
    /\ loaded.called /\ loaded.raised = "none"
    /\ ~mappedCall.called
    /\ \E name \in DOMAIN hist["LABELS"], value \in DOMAIN hist["CONSTS"] :
        \E doc \in {DictValue(<<[key |-> StrValue(name), val |-> StrValue(value)]>>)} :
            \E r \in {mapped(doc, Schema)} :
                mappedCall' = [called |-> TRUE, fn |-> "mapped", key |-> <<>>,
                               arg |-> doc, after |-> doc, err |-> r.err, out |-> r.out]
    /\ TranscodeOthers

RoundTripNext == InternName \/ InternString \/ Render \/ LoadEmitted \/ TranscodeInterned

SpecRoundTrip == Init /\ [][RoundTripNext]_vars

-----------------------------------------------------------------------------
(* Claims about the interner.                                              *)

CodesOf(self) == {self.entries[k] : k \in DOMAIN self.entries}

Codes(o) == CodesOf(interner[o])

\* C1: two distinct original strings successfully passed to get() on the same
\* interner have different escaped identifiers and different integer codes
\* (a second string escaping to the same identifier must raise instead).
C1_Injective ==
    \A o \in Objects : \A a, b \in DOMAIN hist[o] :
        a # b => /\ hist[o][a].name # hist[o][b].name
                 /\ hist[o][a].index # hist[o][b].index

\* C2: the integers assigned to labels and those assigned to consts are disjoint.
C2_RangesDisjoint == Codes("LABELS") \cap Codes("CONSTS") = {}

\* C3: the first string interned in a namespace receives the configured
\* starting offset as its code (0 for labels, 1000 for consts).
C3_FirstGetsOffset ==
    \A o \in Objects : \A a \in DOMAIN hist[o] :
        Cardinality(DOMAIN hist[o]) = 1 => hist[o][a].index = interner[o].starting_offset

Contiguous(S) == \A c \in S, d \in S : \A m \in c..d : m \in S

\* C4: on one interner the assigned codes form a contiguous range without gaps
\* or duplicates, each newly seen string receives the previous highest code
\* plus one, and a later get() never changes the code of an interned string.
C4_NextIntegerStable ==
    [][ngets' # ngets =>
        LET o == ret'.obj
            before == interner[o]
            after == interner'[o]
        IN  /\ Contiguous(CodesOf(after))
            /\ \A a, b \in DOMAIN hist'[o] :
                  a # b => hist'[o][a].index # hist'[o][b].index
            /\ (ret'.fresh /\ ~ret'.raised /\ before.entries # EmptyMap)
                  => ret'.index = before.latest_index + 1
            /\ \A a \in DOMAIN hist[o] :
                  /\ hist'[o][a] = hist[o][a]
                  /\ after.entries[hist[o][a].name] = hist[o][a].index]_vars

\* C5: get(s) for an already interned s returns the same name and the same
\* integer as the first call, raises nothing, and leaves the table and the
\* latest index unchanged.
C5_RepeatedGet ==
    [][(ngets' # ngets /\ ret'.repeat) =>
        LET o == ret'.obj
            first == hist[o][ret'.entry]
        IN  /\ ~ret'.raised
            /\ ret'.name = first.name
            /\ ret'.index = first.index
            /\ interner'[o].entries = interner[o].entries
            /\ interner'[o].latest_index = interner[o].latest_index]_vars

\* a string containing ':' or '/' has been interned again
C5_Witness ==
    /\ ret.repeat /\ ~ret.raised
    /\ \E i \in 1..Len(ret.entry) : ret.entry[i] \in {Colon, Slash}

-----------------------------------------------------------------------------
(* Claims about the transcoder's tables.                                   *)

Accepted == loaded.called /\ loaded.raised = "none"

\* C6: the tables a conversion uses hold exactly the declarations of the
\* grammar text given to that conversion, nothing loaded by an earlier one.
C6_FreshTables == Accepted => Schema = loaded.declared

Overlap(keysA, keysB) == keysA \cap keysB # {}

\* C7 as claimed: a text declaring a name both by label. or enum. and by const.
\* fails at load time, and no accepted table has a label key or an enum key
\* equal to a const key.
C7_LabelEnumConstDisjoint ==
    /\ (loaded.called /\ Overlap(DOMAIN loaded.declared.labels \cup DOMAIN loaded.declared.enums,
                                 DOMAIN loaded.declared.consts))
          => loaded.raised # "none"
    /\ Accepted => ~Overlap(DOMAIN Schema.labels \cup DOMAIN Schema.enums, DOMAIN Schema.consts)

\* C7 as amended: a text declaring a name both by enum. and by const. fails at
\* load time, and no accepted table has an enum key equal to a const key.
C7_EnumConstDisjoint ==
    /\ (loaded.called /\ Overlap(DOMAIN loaded.declared.enums, DOMAIN loaded.declared.consts))
          => loaded.raised # "none"
    /\ Accepted => ~Overlap(DOMAIN Schema.enums, DOMAIN Schema.consts)

\* a text declaring one name by enum. and by const. was refused by the assertion
C7_Witness ==
    /\ loaded.called /\ loaded.raised = "AssertionError"
    /\ Overlap(DOMAIN loaded.declared.enums, DOMAIN loaded.declared.consts)

-----------------------------------------------------------------------------
(* Claims about the shape classifier.                                      *)

Matching(schema) == {c \in {TypeClasses[i] : i \in DOMAIN TypeClasses} : is_one(c, schema)}

Reversed(seq) == [i \in 1..Len(seq) |-> seq[Len(seq) + 1 - i]]
Rotated(seq, n) == SubSeq(seq, n + 1, Len(seq)) \o SubSeq(seq, 1, n)

\* orderings of the variant list: the source's, its reverse, and all rotations of both
Orderings ==
    {Rotated(TypeClasses, n) : n \in 0..(Len(TypeClasses) - 1)}
        \cup {Rotated(Reversed(TypeClasses), n) : n \in 0..(Len(TypeClasses) - 1)}

\* C10: at most one shape predicate holds of a node, find_type returns the
\* same result under every ordering of the variant list, and that result is
\* the one matching variant or None.
C10_ExclusivePredicates ==
    klass # "pending" =>
        /\ Cardinality(Matching(node)) <= 1
        /\ \A order \in Orderings : find_type_in(order, node) = klass
        /\ IF Matching(node) = {} THEN klass = "None" ELSE Matching(node) = {klass}

\* a reference node that also carries the object keys was classified
C10_Witness ==
    /\ klass = "RefType"
    /\ DOMAIN node = {"$ref", "type", "unevaluatedProperties"}

-----------------------------------------------------------------------------
(* Claims about the main program.                                          *)

\* a node of no class, or a node that holds one in its items, in a member of
\* its union or intersection, in a branch of its conditional or in a property
RECURSIVE HasUnrecognized(_)
HasUnrecognized(schema) ==
    \/ find_type(schema) = "None"
    \/ \E key \in DOMAIN schema :
        \/ key \in NodeKeys /\ HasUnrecognized(schema[key])
        \/ key \in NodeListKeys
            /\ \E i \in 1..Len(schema[key]) : HasUnrecognized(schema[key][i])
        \/ key = "properties"
            /\ \E i \in 1..Len(schema[key]) : HasUnrecognized(schema[key][i].schema)

IsUnmapped(definition) == \E i \in 1..Len(main.unmapped) : main.unmapped[i] = definition

\* C8: a run of the compiler ends in exactly one of two outcomes, every
\* definition mapped or a non-empty unmapped set reported by the final
\* assertion; a definition holding an unrecognized node, at its top level or
\* nested, is queued as unmapped and the run is aborted by no other error.
C8_UnrecognizedIsQueued ==
    main.pc = "done" =>
        /\ main.outcome \in {"AllMapped", "UnmappedReported"}
        /\ main.outcome = "AllMapped" <=> main.report = <<>>
        /\ \A i \in 1..Len(document.defs) :
                HasUnrecognized(document.defs[i].schema) => IsUnmapped(document.defs[i])

ProductionsNamed(name) == {j \in 1..Len(main.printed) : main.printed[j].name = name}

-----------------------------------------------------------------------------
(* Claims about drop_weaker_constraints.                                   *)

\* a fragment of the form "field => value": its field without the optional
\* marker, whether it carries the marker, and its value
HasArrow(p) == Contains(p, SepArrow)
ArrowAt(p) == CHOOSE i \in 1..Len(p) :
                /\ StartsWith(SubSeq(p, i, Len(p)), SepArrow)
                /\ \A j \in 1..(i - 1) : ~StartsWith(SubSeq(p, j, Len(p)), SepArrow)
IsOptional(p) == HasArrow(p) /\ p[1] = 63
FieldOf(p) == SubSeq(p, IF IsOptional(p) THEN 2 ELSE 1, ArrowAt(p) - 1)
ValueOf(p) == SubSeq(p, ArrowAt(p) + Len(SepArrow), Len(p))

\* the fragments of the list returned
Result == Split(dropCall.out, SepComma)

\* s is t with some elements removed
RECURSIVE IsSubsequence(_, _)
IsSubsequence(s1, t) ==
    IF s1 = <<>> THEN TRUE
    ELSE IF t = <<>> THEN FALSE
    ELSE IF Head(s1) = Head(t) THEN IsSubsequence(Tail(s1), Tail(t))
    ELSE IsSubsequence(s1, Tail(t))

\* C11: when the list holds a required fragment with a concrete value for a
\* field, the list returned holds no optional fragment and no "=> any"
\* fragment for that field, however many the argument held.
C11_WeakerDropped ==
    (dropCall.called /\ dropCall.err = "none") =>
        \A i \in 1..Len(dropCall.parts) :
            LET p == dropCall.parts[i]
            IN  (HasArrow(p) /\ ~IsOptional(p) /\ ValueOf(p) # StrAny) =>
                    \A j \in 1..Len(Result) :
                        (HasArrow(Result[j]) /\ FieldOf(Result[j]) = FieldOf(p)) =>
                            ~IsOptional(Result[j]) /\ ValueOf(Result[j]) # StrAny

NoFieldTwice(parts) ==
    \A i, j \in 1..Len(parts) :
        (HasArrow(parts[i]) /\ HasArrow(parts[j]) /\ FieldOf(parts[i]) = FieldOf(parts[j]))
            => i = j

\* C12: a list in which no field occurs in more than one fragment is returned
\* unchanged.
C12_NoOverPruning ==
    (dropCall.called /\ NoFieldTwice(dropCall.parts)) =>
        dropCall.err = "none" /\ dropCall.out = dropCall.seq

\* C13: the list returned is a subsequence of the argument, and the fragments
\* that are not of the form "field => value" all survive.
C13_StableFilter ==
    dropCall.called =>
        /\ dropCall.err = "none"
        /\ IsSubsequence(Result, dropCall.parts)
        /\ SelectSeq(Result, LAMBDA p : ~HasArrow(p))
            = SelectSeq(dropCall.parts, LAMBDA p : ~HasArrow(p))

\* C21: when the list holds a fragment for a field without the optional
\* marker, whatever its value ("any" included), the list returned holds no
\* optional fragment for that field.
C21_OptionalDropped ==
    (dropCall.called /\ dropCall.err = "none") =>
        \A i \in 1..Len(dropCall.parts) :
            LET p == dropCall.parts[i]
            IN  (HasArrow(p) /\ ~IsOptional(p)) =>
                    \A j \in 1..Len(Result) :
                        ~(IsOptional(Result[j]) /\ FieldOf(Result[j]) = FieldOf(p))

\* C26: drop_weaker_constraints applied to what it returned returns the same
\* text.
C26_Idempotent == [][DropAgain => (dropCall'.err = "none" /\ dropCall'.out = dropCall.out)]_vars

-----------------------------------------------------------------------------
(* Claims about the translation of a node.                                 *)

IsNumeric == "type" \in DOMAIN node /\ node["type"] \in {"number", "integer"}

\* the production the lower bound selects: unsigned for zero, unsigned with a
\* minimum for a positive bound, signed for a negative or absent bound
ExpectedNumeric ==
    LET integer == node["type"] = "integer"
        minimum == IF "minimum" \in DOMAIN node THEN node["minimum"] ELSE 0 - 1
    IN  IF minimum = 0 THEN (IF integer THEN <<117, 105, 110, 116>> ELSE <<102, 108, 111, 97, 116, 32, 46, 103, 101, 32, 48>>)
        ELSE IF minimum > 0
        THEN (IF integer THEN <<117, 105, 110, 116, 32, 46, 103, 101, 32>> ELSE <<102, 108, 111, 97, 116, 32, 46, 103, 101, 32>>) \o IntToStr(minimum)
        ELSE (IF integer THEN <<105, 110, 116>> ELSE <<102, 108, 111, 97, 116>>)

\* C14: a number or integer node without "maximum" is translated to the
\* production its lower bound selects; none gives an error or no result.
C14_LowerBoundSelects ==
    (cddlCall.called /\ IsNumeric /\ "maximum" \notin DOMAIN node) =>
        /\ cddlCall.err = "none"
        /\ ~cddlCall.none
        /\ cddlCall.out = ExpectedNumeric

IsObjectWithProperties ==
    /\ "type" \in DOMAIN node /\ node["type"] = "object"
    /\ "properties" \in DOMAIN node
    /\ \A i \in 1..Len(node["properties"]) : find_type(node["properties"][i].schema) # "None"

\* the fragments of the translation of an object
ObjectFragments(out) ==
    IF out = StrAnyObject \/ out = Braced(<<>>) THEN <<>>
    ELSE Split(SubSeq(out, 3, Len(out) - 2), SepComma)

\* C15: the translation of an object node with "properties", all of recognized
\* schemas, holds one fragment per property, in the order of the declaration,
\* keyed by the interned label of the name, optional exactly when the name is
\* not in "required".
C15_OneFragmentPerProperty ==
    (cddlCall.called /\ IsObjectWithProperties) =>
        /\ cddlCall.err = "none"
        /\ LET properties == node["properties"]
               required == IF "required" \in DOMAIN node THEN node["required"] ELSE <<>>
               fragments == ObjectFragments(cddlCall.out)
           IN  /\ Len(fragments) = Len(properties)
               /\ \A i \in 1..Len(properties) :
                    LET label == get(ModuleInterners["LABELS"], properties[i].name).value
                    IN  /\ FieldOf(fragments[i]) = label
                        /\ label \in DOMAIN interner["LABELS"].entries
                        /\ IsOptional(fragments[i])
                            <=> ~(\E j \in 1..Len(required) : required[j] = properties[i].name)

\* an object node that declares no property, has no "anyOf" and no "required"
\* and does not forbid unevaluated properties
IsBareObject(schema) ==
    /\ find_type(schema) = "ObjectType"
    /\ "properties" \in DOMAIN schema => schema["properties"] = <<>>
    /\ "anyOf" \notin DOMAIN schema /\ "required" \notin DOMAIN schema
    /\ "unevaluatedProperties" \in DOMAIN schema => schema["unevaluatedProperties"]

\* C22: an object node that declares no property, has no union of shapes and
\* no required list and does not forbid unevaluated properties translates to
\* AnyObject, and to ~AnyObject as the one member of an allOf, without error.
C22_BareObjectIsAnyObject ==
    cddlCall.called =>
        /\ (klass = "ObjectType" /\ IsBareObject(node)) =>
                cddlCall.err = "none" /\ cddlCall.out = StrAnyObject
        /\ (klass = "AllOfType" /\ Len(node["allOf"]) = 1 /\ IsBareObject(node["allOf"][1])) =>
                cddlCall.err = "none" /\ cddlCall.out = Braced(<<126>> \o StrAnyObject)

\* C23: the translation of an allOf node whose members are all of recognized
\* shapes raises nothing.
C23_AllOfSucceeds ==
    (cddlCall.called /\ klass = "AllOfType"
        /\ \A i \in 1..Len(node["allOf"]) : find_type(node["allOf"][i]) # "None") =>
            cddlCall.err = "none"

-----------------------------------------------------------------------------
(* Claims about the label table.                                           *)

\* the lines of the table that are declarations, not comments
Declarations == SelectSeq(labelsCall.lines, LAMBDA l : l = <<>> \/ l[1] # 59)

\* C16: for any field names interned as labels the rendering of the table
\* succeeds and holds one "name = index" declaration per label, in increasing
\* order of the index, the labels of unresolvable profile included.
C16_EveryLabelDeclared ==
    labelsCall.called =>
        /\ labelsCall.err = "none"
        /\ LET self == interner["LABELS"]
           IN  /\ Len(Declarations) = Cardinality(DOMAIN self.entries)
               /\ \A i \in 1..Len(Declarations) :
                    /\ i + self.starting_offset \in Indexes(self)
                    /\ Declarations[i]
                        = NameAt(self, i + self.starting_offset) \o <<32, 61, 32>>
                            \o IntToStr(i + self.starting_offset)

-----------------------------------------------------------------------------
(* Claims about Grouping.                                                  *)

\* the places (bucket, position) of a definition in the buckets
PlacesOf(definition) ==
    {bk \in UNION {{<<b, k>> : k \in 1..Len(grouping.profiles[b])} :
                        b \in DOMAIN grouping.profiles} :
        grouping.profiles[bk[1]][bk[2]] = definition}

StartsWithProfileKey(name) ==
    \E i \in 1..Len(PROFILES_NAMES) :
        \/ StartsWith(name, Lower(PROFILES_NAMES[i]))
        \/ StartsWith(name, <<112, 114, 111, 112, 95>> \o Lower(PROFILES_NAMES[i]))

\* C17: the buckets partition the table: every definition is at one place of
\* one bucket, a definition whose name starts with no profile key is in Core,
\* and every bucket keeps the order of the table.
C17_Partition ==
    grouping.called =>
        /\ \A i \in 1..Len(document.defs) :
            /\ Cardinality(PlacesOf(document.defs[i])) = 1
            /\ ~StartsWithProfileKey(document.defs[i].name)
                => \E k \in 1..Len(grouping.profiles[StrCore]) :
                        grouping.profiles[StrCore][k] = document.defs[i]
        /\ \A b \in DOMAIN grouping.profiles :
            IsSubsequence(grouping.profiles[b], document.defs)

\* a table of two definitions of one profile and a table with a definition of
\* the Core profile, grouped
C17_Witness ==
    /\ grouping.called
    /\ Len(document.defs) = 2
    /\ grouping.profiles[StrCore] # <<>>
    /\ \E b \in DOMAIN grouping.profiles : b # StrCore /\ grouping.profiles[b] # <<>>

\* name starts with the profile name or with "prop_" and the profile name, letter
\* case set aside
StartsWithProfile(name, profile) ==
    \/ StartsWith(Lower(name), Lower(profile))
    \/ StartsWith(Lower(name), <<112, 114, 111, 112, 95>> \o Lower(profile))

\* C24: a definition whose name starts, letter case set aside, with a profile
\* name or with "prop_" and a profile name is in that profile's bucket, also
\* when the name differs from the prefix in letter case.
C24_CaseInsensitivePrefix ==
    grouping.called =>
        \A i \in 1..Len(document.defs), p \in 1..Len(PROFILES_NAMES) :
            StartsWithProfile(document.defs[i].name, PROFILES_NAMES[p]) =>
                \E k \in 1..Len(grouping.profiles[PROFILES_NAMES[p]]) :
                    grouping.profiles[PROFILES_NAMES[p]][k] = document.defs[i]

-----------------------------------------------------------------------------
(* Claims about totalrefs.                                                 *)

\* the names the definition of a name refers to
Targets(name) ==
    IF name \notin DefNames(document.defs) THEN {}
    ELSE LET values == RefValues(DefSchema(document.defs, name))
         IN  {LastSegment(values[i]) : i \in 1..Len(values)}

\* the names reachable from a set of names
RECURSIVE ReachableFrom(_)
ReachableFrom(names) ==
    LET more == names \cup UNION {Targets(n) : n \in names}
    IN  IF more = names THEN names ELSE ReachableFrom(more)

RECURSIVE SumOfRefs(_)
SumOfRefs(names) ==
    IF names = {} THEN 0
    ELSE LET n == CHOOSE m \in names : TRUE
         IN  refs(DefSchema(document.defs, n)) + SumOfRefs(names \ {n})

\* what a finished call has done: when every reachable name is defined, each
\* was processed once and the count is the number of "$ref" in their
\* definitions; otherwise the lookup of an undefined name raised KeyError
WalkDone ==
    walk.pc = "done" =>
        LET reachable == ReachableFrom({walk.name})
        IN  IF reachable \subseteq DefNames(document.defs)
            THEN /\ walk.locals.err = "none"
                 /\ Len(walk.processed) = Cardinality(reachable)
                 /\ {walk.processed[i] : i \in 1..Len(walk.processed)} = reachable
                 /\ walk.locals.count = SumOfRefs(reachable)
            ELSE walk.locals.err = "KeyError"

-----------------------------------------------------------------------------
(* Claims about simple_value_convert and mapped.                           *)

IsDigestKey(key) == key = StrHashValue
IsTimeKey(key) == key = StrCreated \/ EndsWith(key, StrTime)
IsConstant(value) == value.t = "str" /\ value.v \in DOMAIN Schema.consts
IsEnumerated(value) == value.t = "str" /\ value.v \in DOMAIN Schema.enums

ConvertCalled == mappedCall.fn = "simple_value_convert"
ConvertResult == [err |-> mappedCall.err, out |-> mappedCall.out]

\* C19: exactly one value rule applies to a field, in the order digest,
\* timestamp, constant, enumerated value, pass-through: a digest-named or
\* timestamp-named field is never given an interned entry, a string that is
\* both a constant and an enumerated value takes the constant's entry, and a
\* value that is no string or equals no table entry is returned unchanged.
C19_ValueRules ==
    ConvertCalled =>
        LET key == mappedCall.key
            value == mappedCall.arg
        IN  IF IsDigestKey(key)
            THEN mappedCall.err # "none" \/ mappedCall.out.t = "bytes"
            ELSE IF IsTimeKey(key)
            THEN mappedCall.err # "none" \/ mappedCall.out.t = "CBORTag"
            ELSE IF IsConstant(value)
            THEN ConvertResult = Return(StrValue(Schema.consts[value.v]))
            ELSE IF IsEnumerated(value)
            THEN ConvertResult = Return(IntValue(Schema.enums[value.v]))
            ELSE ConvertResult = Return(value)

\* a string that is both a constant and an enumerated value was converted
C19_Witness ==
    /\ ConvertCalled
    /\ ~IsDigestKey(mappedCall.key) /\ ~IsTimeKey(mappedCall.key)
    /\ IsConstant(mappedCall.arg) /\ IsEnumerated(mappedCall.arg)
    /\ mappedCall.out = StrValue(Schema.consts[mappedCall.arg.v])

\* `items` is the transcoding of the object `fields`: field by field, under the
\* label of the key, an object is transcoded, an array keeps its elements
\* except that its objects are transcoded
RECURSIVE TranscodingOf(_, _)
TranscodingOf(fields, items) ==
    /\ Len(items) = Len(fields)
    /\ \A i \in 1..Len(fields) :
        LET value == fields[i].val
            got == items[i].val
        IN  /\ items[i].key = LabelOf(fields[i].key.v, Schema)
            /\ value.t = "dict" => got.t = "dict" /\ TranscodingOf(value.v, got.v)
            /\ value.t = "list" =>
                /\ got.t = "list" /\ Len(got.v) = Len(value.v)
                /\ \A j \in 1..Len(value.v) :
                    IF value.v[j].t = "dict"
                    THEN got.v[j].t = "dict" /\ TranscodingOf(value.v[j].v, got.v[j].v)
                    ELSE got.v[j] = value.v[j]

MappedCalled == mappedCall.fn = "mapped"

\* C20: in the result of mapped every object that is a field value or an
\* element of an array is transcoded, every other element of an array is what
\* it was in the input, and the input document is not modified.
C20_NestedTranscoded ==
    MappedCalled =>
        /\ mappedCall.after = mappedCall.arg
        /\ mappedCall.err = "none" => TranscodingOf(mappedCall.arg.v, mappedCall.out.v)

\* a document was transcoded that holds an array with an interned string, an
\* object and an array of an object, the object coming out with a label as key
C20_Witness ==
    /\ MappedCalled /\ mappedCall.err = "none"
    /\ \E i \in 1..Len(mappedCall.arg.v) :
        LET value == mappedCall.arg.v[i].val
            got == mappedCall.out.v[i].val
        IN  /\ value.t = "list" /\ Len(value.v) = 2
            /\ IsConstant(value.v[1]) \/ IsEnumerated(value.v[1])
            /\ got.v[1] = value.v[1]
            /\ value.v[2].t = "dict" /\ value.v[2].v # <<>>
            /\ got.v[2].v[1].key.t = "int"
    /\ \E i \in 1..Len(mappedCall.arg.v) :
        /\ mappedCall.arg.v[i].val.t = "dict" /\ mappedCall.arg.v[i].val.v # <<>>
        /\ mappedCall.out.v[i].val # mappedCall.arg.v[i].val

-----------------------------------------------------------------------------
(* Claims about the compiler's tables read back by the transcoder.          *)

\* the field of the document given to mapped
RoundTripField == mappedCall.arg.v[1]

\* C25: when the transcoder's tables are loaded from the declarations the
\* compiler printed, a field name the compiler interned with code n is
\* replaced as a key by the integer n, and a string the compiler interned with
\* code m is replaced as a field value by the integer m, also when the name or
\* the string contains ':' or '/'.
C25_RoundTrip ==
    (labelsCall.called /\ loaded.called /\ mappedCall.called) =>
        /\ mappedCall.err = "none"
        /\ mappedCall.out =
              DictValue(<<[key |-> IntValue(hist["LABELS"][RoundTripField.key.v].index),
                          val |-> IntValue(hist["CONSTS"][RoundTripField.val.v].index)]>>)

=============================================================================
